---- MODULE Spec2Model ----
(***************************************************************************)
(* Metrics collection, storage and querying of the swarm dashboard         *)
(* (dashboard/metrics.py, dashboard/analytics.py).                         *)
(*                                                                         *)
(* Time is counted in whole minutes.  A dict is a set of <<key, value>>    *)
(* pairs (tags) or, where the iteration order is observable, a sequence of *)
(* <<key, value>> pairs (fields).  An optional datetime argument is <<>>   *)
(* (None) or <<t>>.                                                        *)
(***************************************************************************)
EXTENDS Integers, Sequences, FiniteSets, TLC

VARIABLES
    now,                     \* the wall clock, timezone.now()
    configured,              \* the storage_backend argument of the constructor
    storage_backend,         \* MetricsCollector.storage_backend
    has_influxdb_client,     \* hasattr(self, 'influxdb_client')
    has_prometheus_registry, \* hasattr(self, 'prometheus_registry')
    pushgateway_url,         \* settings.PROMETHEUS_PUSHGATEWAY_URL is set
    metric_table,            \* the rows of the Metric table, in insertion order
    influx_points,           \* the points held by the InfluxDB bucket
    prom_gauges,             \* the samples of the collector's Prometheus registry
    pushgateway,             \* the samples last pushed to the push gateway
    cache,                   \* the entries of the Django cache
    runs,                    \* the number of collection runs so far
    op,                      \* the last operation: its arguments and what it returned
    preceding                \* an earlier operation it is compared with: the collection run
                             \* right before a query, the aggregation call before another

vars == <<now, configured, storage_backend, has_influxdb_client,
          has_prometheus_registry, pushgateway_url, metric_table,
          influx_points, prom_gauges, pushgateway, cache, runs, op, preceding>>

collector == <<configured, storage_backend, has_influxdb_client,
               has_prometheus_registry, pushgateway_url>>

stores == <<metric_table, influx_points, prom_gauges, pushgateway>>

-----------------------------------------------------------------------------
(* Bounds of the model *)

\* the clock advances this many minutes at a time
ClockStep == 720

\* the clock advances at most this many times
MaxTicks == 2

\* at most this many collection runs
MaxRuns == 2

\* cleanup_old_metrics is called with 0..MaxDays days
MaxDays == 1

-----------------------------------------------------------------------------
(* Units and small helpers *)

Minutes(m) == m
Hours(h) == h * 60
Days(d) == d * 24 * 60

None == <<>>
Some(t) == <<t>>

\* dict.get(key, default) on a dict held as a set of pairs
Get(d, k, default) ==
    IF \E p \in d : p[1] = k THEN (CHOOSE p \in d : p[1] = k)[2] ELSE default

RECURSIVE Concat(_)
Concat(ss) == IF ss = <<>> THEN <<>> ELSE Head(ss) \o Concat(Tail(ss))

Range(s) == {s[i] : i \in 1..Len(s)}

-----------------------------------------------------------------------------
(* The cluster observer: DockerSwarmManager.  Each call returns its data   *)
(* or, when the Docker client is missing or the call fails, {} or [].      *)

SystemInfo ==
    { <<"containers", 3>>, <<"containers_running", 2>>,
      <<"containers_stopped", 1>>, <<"containers_paused", 0>>,
      <<"cpus", 4>>, <<"memory", 8>> }

SwarmInfo == { <<"nodes", 2>>, <<"managers", 1>> }

Services ==
    << { <<"id", "s1">>, <<"name", "web">>, <<"running_tasks", 1>>,
         <<"total_tasks", 2>>, <<"replicas", 2>> } >>

Nodes ==
    << { <<"id", "n1">>, <<"hostname", "h1">>, <<"role", "manager">>,
         <<"status", "ready">>, <<"availability", "active">>,
         <<"resources", { <<"cpu", 4>>, <<"memory", 1>> }>> },
       { <<"id", "n2">>, <<"hostname", "h2">>, <<"role", "worker">>,
         <<"status", "down">>, <<"availability", "active">>,
         <<"resources", { <<"cpu", 2>>, <<"memory", 1>> }>> } >>

\* one snapshot of the cluster as the observer calls of a run return it:
\* get_system_info and get_swarm_info, get_services, get_nodes
Observe(system_ok, services_ok, nodes_ok) ==
    [system_info |-> IF system_ok THEN SystemInfo ELSE {},
     swarm_info |-> IF system_ok THEN SwarmInfo ELSE {},
     services |-> IF services_ok THEN Services ELSE <<>>,
     nodes |-> IF nodes_ok THEN Nodes ELSE <<>>]

\* the snapshots a run is given: every call answers, the calls of one
\* sub-collection fail, or none answers
Observations ==
    { Observe(TRUE, TRUE, TRUE), Observe(FALSE, TRUE, TRUE), Observe(TRUE, FALSE, TRUE),
      Observe(TRUE, TRUE, FALSE), Observe(FALSE, FALSE, FALSE) }

-----------------------------------------------------------------------------
(* MetricsCollector: turning a snapshot into metric points *)

Point(measurement, tags, fields, timestamp) ==
    [measurement |-> measurement, tags |-> tags, fields |-> fields,
     timestamp |-> timestamp]

ContainerPoint(state, key, system_info, timestamp) ==
    Point("system_containers", { <<"state", state>> },
          << <<"value", Get(system_info, key, 0)>> >>, timestamp)

CollectSystemMetrics(timestamp, system_info, swarm_info) ==
    << ContainerPoint("total", "containers", system_info, timestamp),
       ContainerPoint("running", "containers_running", system_info, timestamp),
       ContainerPoint("stopped", "containers_stopped", system_info, timestamp),
       ContainerPoint("paused", "containers_paused", system_info, timestamp) >>
    \o (IF Get(system_info, "cpus", 0) # 0
        THEN << Point("system_resources", { <<"resource", "cpu">> },
                      << <<"cores", Get(system_info, "cpus", 0)>> >>, timestamp) >>
        ELSE <<>>)
    \o (IF Get(system_info, "memory", 0) # 0
        THEN << Point("system_resources", { <<"resource", "memory">> },
                      << <<"bytes", Get(system_info, "memory", 0)>> >>, timestamp) >>
        ELSE <<>>)
    \o (IF swarm_info # {}
        THEN << Point("swarm_info", { <<"metric", "nodes">> },
                      << <<"value", Get(swarm_info, "nodes", 0)>> >>, timestamp),
                Point("swarm_info", { <<"metric", "managers">> },
                      << <<"value", Get(swarm_info, "managers", 0)>> >>, timestamp) >>
        ELSE <<>>)

ServicePoints(service, timestamp) ==
    LET tags == { <<"service_name", Get(service, "name", "")>>,
                  <<"service_id", Get(service, "id", "")>> }
        is_healthy == /\ Get(service, "running_tasks", 0) = Get(service, "total_tasks", 0)
                      /\ Get(service, "total_tasks", 0) > 0
    IN << Point("service_replicas", tags,
                << <<"running", Get(service, "running_tasks", 0)>>,
                   <<"total", Get(service, "total_tasks", 0)>>,
                   <<"desired", Get(service, "replicas", 0)>> >>, timestamp),
          Point("service_health", tags,
                << <<"healthy", IF is_healthy THEN 1 ELSE 0>> >>, timestamp) >>

CollectServiceMetrics(timestamp, services) ==
    Concat([i \in 1..Len(services) |-> ServicePoints(services[i], timestamp)])

NodePoints(node, timestamp) ==
    LET tags == { <<"node_id", Get(node, "id", "")>>,
                  <<"hostname", Get(node, "hostname", "")>>,
                  <<"role", Get(node, "role", "")>> }
        is_ready == Get(node, "status", "") = "ready"
        is_available == Get(node, "availability", "") = "active"
    IN << Point("node_resources", tags,
                << <<"cpu_cores", Get(Get(node, "resources", {}), "cpu", 0)>>,
                   <<"memory_gb", Get(Get(node, "resources", {}), "memory", 0)>> >>, timestamp),
          Point("node_status", tags,
                << <<"ready", IF is_ready THEN 1 ELSE 0>>,
                   <<"available", IF is_available THEN 1 ELSE 0>> >>, timestamp) >>

CollectNodeMetrics(timestamp, nodes) ==
    Concat([i \in 1..Len(nodes) |-> NodePoints(nodes[i], timestamp)])

-----------------------------------------------------------------------------
(* The relational backend: the Metric table *)

Metric(measurement, tags, fields, timestamp) ==
    [measurement |-> measurement, tags |-> tags, fields |-> fields,
     timestamp |-> timestamp]

\* a store that keeps the first row of a batch the database rejects
StoreToDatabasePartial(table, metrics, fault) ==
    IF fault
    THEN [table |-> IF metrics = <<>> THEN table ELSE Append(table, Head(metrics)),
          raised |-> FALSE]
    ELSE [table |-> table \o metrics, raised |-> FALSE]

\* a store that replaces the rows of the table by the batch
StoreToDatabaseReplace(table, metrics, fault) ==
    IF fault
    THEN [table |-> table, raised |-> FALSE]
    ELSE [table |-> metrics, raised |-> FALSE]

\* _store_to_database: one bulk insert of the whole batch; a database error is
\* logged and swallowed
StoreToDatabase(table, metrics, fault) ==
    IF fault
    THEN [table |-> table, raised |-> FALSE]
    ELSE [table |-> table \o [i \in 1..Len(metrics) |->
                                 Metric(metrics[i].measurement, metrics[i].tags,
                                        metrics[i].fields, metrics[i].timestamp)],
          raised |-> FALSE]

\* queryset.order_by('timestamp'): rows of equal timestamp keep insertion order
RECURSIVE InsertByTimestamp(_, _)
InsertByTimestamp(sorted, row) ==
    IF sorted = <<>> THEN <<row>>
    ELSE IF sorted[Len(sorted)].timestamp <= row.timestamp
         THEN Append(sorted, row)
         ELSE Append(InsertByTimestamp(SubSeq(sorted, 1, Len(sorted) - 1), row),
                     sorted[Len(sorted)])

RECURSIVE OrderByTimestamp(_)
OrderByTimestamp(rows) ==
    IF rows = <<>> THEN <<>>
    ELSE InsertByTimestamp(OrderByTimestamp(SubSeq(rows, 1, Len(rows) - 1)),
                           rows[Len(rows)])

\* a filter that one pair of the tags satisfies
TagsContainAny(row_tags, tags) == tags = {} \/ \E kv \in tags : kv \in row_tags

\* tags__contains={tag_key: tag_value} for every pair of the filter
TagsContain(row_tags, tags) == \A kv \in tags : kv \in row_tags

\* the records of one row: one per field, in the order of the row's fields
RowRecords(metric) ==
    [i \in 1..Len(metric.fields) |->
        [timestamp |-> metric.timestamp, value |-> metric.fields[i][2],
         field |-> metric.fields[i][1], tags |-> metric.tags]]

\* a query whose range excludes end_time
QueryDatabaseExclusiveEnd(table, measurement, tags, start_time, end_time, fault) ==
    IF fault
    THEN [data |-> <<>>, raised |-> FALSE]
    ELSE LET Matches(row) == /\ row.measurement = measurement
                             /\ row.timestamp >= start_time
                             /\ row.timestamp < end_time
                             /\ TagsContain(row.tags, tags)
             queryset == OrderByTimestamp(SelectSeq(table, Matches))
         IN [data |-> Concat([i \in 1..Len(queryset) |-> RowRecords(queryset[i])]),
             raised |-> FALSE]

QueryDatabase(table, measurement, tags, start_time, end_time, fault) ==
    IF fault
    THEN [data |-> <<>>, raised |-> FALSE]
    ELSE LET Matches(row) == /\ row.measurement = measurement
                             /\ row.timestamp >= start_time
                             /\ row.timestamp <= end_time
                             /\ TagsContain(row.tags, tags)
             queryset == OrderByTimestamp(SelectSeq(table, Matches))
         IN [data |-> Concat([i \in 1..Len(queryset) |-> RowRecords(queryset[i])]),
             raised |-> FALSE]

-----------------------------------------------------------------------------
(* The InfluxDB backend.  The bucket holds one value per measurement, tag   *)
(* set, field and time; writing the same series and time again replaces it. *)

InfluxRecords(metric) ==
    { [measurement |-> metric.measurement, tags |-> metric.tags,
       field |-> metric.fields[i][1], value |-> metric.fields[i][2],
       time |-> metric.timestamp] : i \in 1..Len(metric.fields) }

SameSeries(a, b) ==
    /\ a.measurement = b.measurement /\ a.tags = b.tags /\ a.field = b.field

RECURSIVE InfluxWrite(_, _)
InfluxWrite(points, metrics) ==
    IF metrics = <<>> THEN points
    ELSE LET new == InfluxRecords(Head(metrics))
             kept == { p \in points :
                         ~ \E q \in new : SameSeries(p, q) /\ p.time = q.time }
         IN InfluxWrite(kept \cup new, Tail(metrics))

\* _store_to_influxdb: nothing without a client; a write error is logged and swallowed
StoreToInfluxdb(points, metrics, has_client, fault) ==
    IF ~ has_client THEN [points |-> points, raised |-> FALSE]
    ELSE IF fault THEN [points |-> points, raised |-> FALSE]
    ELSE [points |-> InfluxWrite(points, metrics), raised |-> FALSE]

\* aggregateWindow(every: 5m): the window a time falls in ends here; the last
\* window is cut at the stop of the range
WindowStop(time, stop) ==
    LET w == time - (time % Minutes(5)) + Minutes(5)
    IN IF w < stop THEN w ELSE stop

RECURSIVE SumOf(_)
SumOf(S) == IF S = {} THEN 0
            ELSE LET x == CHOOSE x \in S : TRUE IN x.value + SumOf(S \ {x})

\* the mean of a window's samples (the clock keeps every window to samples of
\* one time, so the division is exact)
WindowMean(samples) == SumOf(samples) \div Cardinality(samples)

RECURSIVE OrderByTime(_)
OrderByTime(S) ==
    IF S = {} THEN <<>>
    ELSE LET x == CHOOSE x \in S : \A y \in S : x.timestamp <= y.timestamp
         IN <<x>> \o OrderByTime(S \ {x})

\* the records of the result: table after table, one table per series, the
\* records of a table by ascending time
RECURSIVE TableAfterTable(_)
TableAfterTable(S) ==
    IF S = {} THEN <<>>
    ELSE LET x == CHOOSE x \in S : TRUE
             table == { y \in S : y.field = x.field /\ y.tags = x.tags }
         IN OrderByTime(table) \o TableAfterTable(S \ table)

\* the Flux query of _query_influxdb: range (start inclusive, stop exclusive),
\* the measurement, every tag of the filter, then the mean of every 5 minute
\* window of every series; a record carries the tags of its series and the
\* columns result, _start and _stop
FluxQuery(points, measurement, tags, start_time, end_time) ==
    LET rows == { p \in points : /\ p.time >= start_time
                                 /\ p.time < end_time
                                 /\ p.measurement = measurement
                                 /\ TagsContain(p.tags, tags) }
        Window(p) == { q \in rows : /\ SameSeries(p, q)
                                    /\ WindowStop(q.time, end_time)
                                         = WindowStop(p.time, end_time) }
    IN TableAfterTable({ [timestamp |-> WindowStop(p.time, end_time),
                          value |-> WindowMean(Window(p)),
                          field |-> p.field,
                          tags |-> p.tags \cup { <<"result", "_result">>,
                                                 <<"_start", start_time>>,
                                                 <<"_stop", end_time>> }]
                         : p \in rows })

\* _query_influxdb: nothing without a client; a query error is logged and swallowed
QueryInfluxdb(points, measurement, tags, start_time, end_time, has_client, fault) ==
    IF ~ has_client THEN [data |-> <<>>, raised |-> FALSE]
    ELSE IF fault THEN [data |-> <<>>, raised |-> FALSE]
    ELSE [data |-> FluxQuery(points, measurement, tags, start_time, end_time),
          raised |-> FALSE]

-----------------------------------------------------------------------------
(* The Prometheus backend: gauges of the collector's registry, one sample   *)
(* per gauge and label set, and the push gateway that receives the registry *)

Sample(name, labels, value) == [name |-> name, labels |-> labels, value |-> value]

SetGauge(gauges, sample) ==
    { g \in gauges : ~ (g.name = sample.name /\ g.labels = sample.labels) }
        \cup {sample}

RECURSIVE SetGauges(_, _)
SetGauges(gauges, samples) ==
    IF samples = <<>> THEN gauges
    ELSE SetGauges(SetGauge(gauges, Head(samples)), Tail(samples))

FieldOf(metric, name) ==
    metric.fields[CHOOSE i \in 1..Len(metric.fields) : metric.fields[i][1] = name][2]

Labels(metric, keys) == { kv \in metric.tags : kv[1] \in keys }

ServiceSamples(metric) ==
    IF metric.measurement = "service_replicas"
    THEN << Sample("swarm_service_replicas_running",
                   Labels(metric, {"service_name", "service_id"}),
                   FieldOf(metric, "running")),
            Sample("swarm_service_replicas_desired",
                   Labels(metric, {"service_name", "service_id"}),
                   FieldOf(metric, "desired")) >>
    ELSE <<>>

NodeSamples(metric) ==
    IF metric.measurement = "node_resources"
    THEN << Sample("swarm_node_cpu_cores",
                   Labels(metric, {"node_id", "hostname", "role"}),
                   FieldOf(metric, "cpu_cores")),
            Sample("swarm_node_memory_bytes",
                   Labels(metric, {"node_id", "hostname", "role"}),
                   FieldOf(metric, "memory_gb") * 1024 * 1024 * 1024) >>
    ELSE <<>>

SystemSamples(metric) ==
    IF metric.measurement = "system_containers"
    THEN << Sample("swarm_system_containers_total", Labels(metric, {"state"}),
                   FieldOf(metric, "value")) >>
    ELSE <<>>

\* _store_to_prometheus: nothing without a registry; the gauges are set, then
\* the registry is pushed when a gateway is configured; a push error is logged
\* and swallowed
StoreToPrometheus(gauges, gateway, system_metrics, service_metrics, node_metrics, has_registry, gateway_url, fault) ==
    IF ~ has_registry
    THEN [gauges |-> gauges, gateway |-> gateway, raised |-> FALSE]
    ELSE LET samples ==
                 Concat([i \in 1..Len(service_metrics) |-> ServiceSamples(service_metrics[i])])
                 \o Concat([i \in 1..Len(node_metrics) |-> NodeSamples(node_metrics[i])])
                 \o Concat([i \in 1..Len(system_metrics) |-> SystemSamples(system_metrics[i])])
             updated == SetGauges(gauges, samples)
         IN [gauges |-> updated,
             gateway |-> IF gateway_url /\ ~ fault THEN updated ELSE gateway,
             raised |-> FALSE]

-----------------------------------------------------------------------------
(* MetricsCollector.__init__ *)

Backends == {"database", "influxdb", "prometheus"}

\* an initialisation that keeps the influxdb backend when it raises
InitInfluxdbNoFallback(outcome) ==
    IF outcome = "client_raises"
    THEN [storage_backend |-> "influxdb", has_influxdb_client |-> FALSE]
    ELSE [storage_backend |-> "influxdb", has_influxdb_client |-> TRUE]

\* _init_influxdb: the client is built, then pinged; an exception of either
\* selects the database backend
InitInfluxdb(outcome) ==
    IF outcome = "client_raises"
    THEN [storage_backend |-> "database", has_influxdb_client |-> FALSE]
    ELSE IF outcome = "ping_raises"
    THEN [storage_backend |-> "database", has_influxdb_client |-> TRUE]
    ELSE [storage_backend |-> "influxdb", has_influxdb_client |-> TRUE]

\* _init_prometheus: the registry is built, then its gauges; an exception
\* selects the database backend
InitPrometheus(outcome) ==
    IF outcome = "gauge_raises"
    THEN [storage_backend |-> "database", has_prometheus_registry |-> TRUE]
    ELSE [storage_backend |-> "prometheus", has_prometheus_registry |-> TRUE]

InitOutcomes(backend) ==
    IF backend = "influxdb" THEN {"unavailable", "ok", "client_raises", "ping_raises"}
    ELSE IF backend = "prometheus" THEN {"unavailable", "ok", "gauge_raises"}
    ELSE {"ok"}

\* the collector after MetricsCollector(storage_backend); "unavailable" is
\* INFLUXDB_AVAILABLE or PROMETHEUS_AVAILABLE being False
Construct(backend, outcome) ==
    IF backend = "influxdb" /\ outcome # "unavailable"
    THEN [storage_backend |-> InitInfluxdb(outcome).storage_backend,
          has_influxdb_client |-> InitInfluxdb(outcome).has_influxdb_client,
          has_prometheus_registry |-> FALSE]
    ELSE IF backend = "prometheus" /\ outcome # "unavailable"
    THEN [storage_backend |-> InitPrometheus(outcome).storage_backend,
          has_influxdb_client |-> FALSE,
          has_prometheus_registry |-> InitPrometheus(outcome).has_prometheus_registry]
    ELSE [storage_backend |-> backend, has_influxdb_client |-> FALSE,
          has_prometheus_registry |-> FALSE]

NoOp == [kind |-> "none"]

Init ==
    \E backend \in Backends : \E outcome \in InitOutcomes(backend) :
        /\ now = 0
        /\ configured = [storage_backend |-> backend, outcome |-> outcome]
        /\ storage_backend = Construct(backend, outcome).storage_backend
        /\ has_influxdb_client = Construct(backend, outcome).has_influxdb_client
        /\ has_prometheus_registry = Construct(backend, outcome).has_prometheus_registry
        /\ pushgateway_url \in (IF backend = "prometheus" /\ outcome = "ok"
                                THEN BOOLEAN ELSE {FALSE})
        /\ metric_table = <<>>
        /\ influx_points = {}
        /\ prom_gauges = {}
        /\ pushgateway = {}
        /\ cache = {}
        /\ runs = 0
        /\ op = NoOp
        /\ preceding = NoOp

-----------------------------------------------------------------------------
(* MetricsCollector.collect_metrics *)

\* the summary collect_metrics returns: the exception handler around the run
\* reports a failure of one of its calls
Summary(metrics, timestamp, raised) ==
    IF raised
    THEN [success |-> FALSE, timestamp |-> timestamp]
    ELSE [success |-> TRUE, metrics_collected |-> Len(metrics), timestamp |-> timestamp]

CollectMetrics(obs, fault) ==
    /\ runs < MaxRuns
    /\ LET timestamp == now
           system_metrics == CollectSystemMetrics(timestamp, obs.system_info, obs.swarm_info)
           service_metrics == CollectServiceMetrics(timestamp, obs.services)
           node_metrics == CollectNodeMetrics(timestamp, obs.nodes)
           metrics == system_metrics \o service_metrics \o node_metrics
           influx == StoreToInfluxdb(influx_points, metrics, has_influxdb_client, fault)
           prom == StoreToPrometheus(prom_gauges, pushgateway, system_metrics,
                                     service_metrics, node_metrics,
                                     has_prometheus_registry, pushgateway_url, fault)
           db == StoreToDatabase(metric_table, metrics, fault)
           raised == IF storage_backend = "influxdb" THEN influx.raised
                     ELSE IF storage_backend = "prometheus" THEN prom.raised
                     ELSE db.raised
       IN /\ influx_points' = IF storage_backend = "influxdb"
                              THEN influx.points ELSE influx_points
          /\ prom_gauges' = IF storage_backend = "prometheus"
                            THEN prom.gauges ELSE prom_gauges
          /\ pushgateway' = IF storage_backend = "prometheus"
                            THEN prom.gateway ELSE pushgateway
          /\ metric_table' = IF storage_backend \notin {"influxdb", "prometheus"}
                             THEN db.table ELSE metric_table
          /\ op' = [kind |-> "collect", obs |-> obs, metrics |-> metrics,
                    fault |-> fault, raised |-> FALSE,
                    summary |-> Summary(metrics, timestamp, raised)]
    /\ runs' = runs + 1
    /\ UNCHANGED <<now, collector, cache>>

-----------------------------------------------------------------------------
(* MetricsCollector.get_historical_data *)

\* a query that selects the database backend when the backend fails under it
GetHistoricalDataFallback(measurement, tags, start_time, end_time, fault) ==
    LET start == IF start_time = None THEN now - Hours(24) ELSE start_time[1]
        end == IF end_time = None THEN now ELSE end_time[1]
        got == IF storage_backend = "influxdb"
               THEN QueryInfluxdb(influx_points, measurement, tags, start, end,
                                  has_influxdb_client, fault)
               ELSE IF storage_backend = "database"
               THEN QueryDatabase(metric_table, measurement, tags, start, end, fault)
               ELSE [data |-> <<>>, raised |-> FALSE]
    IN /\ op' = [kind |-> "query", measurement |-> measurement, tags |-> tags,
                 start_time |-> start, end_time |-> end, fault |-> fault,
                 data |-> got.data, raised |-> got.raised]
       /\ preceding' = IF op.kind = "collect" THEN op ELSE NoOp
       /\ storage_backend' = IF fault THEN "database" ELSE storage_backend
       /\ UNCHANGED <<now, configured, has_influxdb_client, has_prometheus_registry,
                      pushgateway_url, stores, cache, runs>>

GetHistoricalData(measurement, tags, start_time, end_time, fault) ==
    LET start == IF start_time = None THEN now - Hours(24) ELSE start_time[1]
        end == IF end_time = None THEN now ELSE end_time[1]
        got == IF storage_backend = "influxdb"
               THEN QueryInfluxdb(influx_points, measurement, tags, start, end,
                                  has_influxdb_client, fault)
               ELSE IF storage_backend = "database"
               THEN QueryDatabase(metric_table, measurement, tags, start, end, fault)
               ELSE [data |-> <<>>, raised |-> FALSE]
    IN /\ op' = [kind |-> "query", measurement |-> measurement, tags |-> tags,
                 start_time |-> start, end_time |-> end, fault |-> fault,
                 data |-> got.data, raised |-> got.raised]
       /\ preceding' = IF op.kind = "collect" THEN op ELSE NoOp
       /\ UNCHANGED <<now, collector, stores, cache, runs>>

-----------------------------------------------------------------------------
(* MetricsCollector.cleanup_old_metrics *)

\* a cleanup that also deletes the rows stored exactly at the cutoff
CleanupOldMetricsLte(days, fault) ==
    LET cutoff_date == now - Days(days)
        Kept(row) == ~ (row.timestamp <= cutoff_date)
        kept == SelectSeq(metric_table, Kept)
    IN /\ IF storage_backend = "database"
          THEN IF fault
               THEN /\ metric_table' = metric_table
                    /\ op' = [kind |-> "cleanup", days |-> days, cutoff_date |-> cutoff_date,
                              fault |-> fault, raised |-> TRUE]
               ELSE /\ metric_table' = kept
                    /\ op' = [kind |-> "cleanup", days |-> days, cutoff_date |-> cutoff_date,
                              fault |-> fault, raised |-> FALSE,
                              deleted_count |-> Len(metric_table) - Len(kept)]
          ELSE /\ metric_table' = metric_table
               /\ op' = [kind |-> "cleanup", days |-> days, cutoff_date |-> cutoff_date,
                         fault |-> fault, raised |-> FALSE, deleted_count |-> 0]
       /\ UNCHANGED <<now, collector, influx_points, prom_gauges, pushgateway, cache, runs>>

\* Metric.objects.filter(timestamp__lt=cutoff_date).delete(); a database error
\* is not handled here
CleanupOldMetrics(days, fault) ==
    LET cutoff_date == now - Days(days)
        Kept(row) == ~ (row.timestamp < cutoff_date)
        kept == SelectSeq(metric_table, Kept)
    IN /\ IF storage_backend = "database"
          THEN IF fault
               THEN /\ metric_table' = metric_table
                    /\ op' = [kind |-> "cleanup", days |-> days, cutoff_date |-> cutoff_date,
                              fault |-> fault, raised |-> TRUE]
               ELSE /\ metric_table' = kept
                    /\ op' = [kind |-> "cleanup", days |-> days, cutoff_date |-> cutoff_date,
                              fault |-> fault, raised |-> FALSE,
                              deleted_count |-> Len(metric_table) - Len(kept)]
          ELSE /\ metric_table' = metric_table
               /\ op' = [kind |-> "cleanup", days |-> days, cutoff_date |-> cutoff_date,
                         fault |-> fault, raised |-> FALSE, deleted_count |-> 0]
       /\ UNCHANGED <<now, collector, influx_points, prom_gauges, pushgateway, cache, runs>>

-----------------------------------------------------------------------------
(* AnalyticsEngine: duration and granularity tokens.  A token is a sequence *)
(* of characters.                                                           *)

Chars == {"0", "5", "-", "x", "h", "d", "w", "m"}

\* tokens have at most this many characters
MaxTokenLen == 3

Tokens == UNION { [1..n -> Chars] : n \in 0..MaxTokenLen }

Digits == {"0", "1", "2", "3", "4", "5", "6", "7", "8", "9"}

DigitValue(c) ==
    CASE c = "0" -> 0 [] c = "1" -> 1 [] c = "2" -> 2 [] c = "3" -> 3 [] c = "4" -> 4
      [] c = "5" -> 5 [] c = "6" -> 6 [] c = "7" -> 7 [] c = "8" -> 8 [] c = "9" -> 9

RECURSIVE DecimalValue(_)
DecimalValue(s) ==
    IF s = <<>> THEN 0
    ELSE 10 * DecimalValue(SubSeq(s, 1, Len(s) - 1)) + DigitValue(s[Len(s)])

\* int(s): an optional sign, then one digit or more; anything else raises
\* ValueError
IntOf(s) ==
    LET signed == Len(s) > 0 /\ s[1] = "-"
        digits == IF signed THEN Tail(s) ELSE s
    IN IF digits # <<>> /\ \A i \in 1..Len(digits) : digits[i] \in Digits
       THEN [raised |-> FALSE,
             value |-> IF signed THEN 0 - DecimalValue(digits) ELSE DecimalValue(digits)]
       ELSE [raised |-> TRUE]

EndsWith(s, c) == Len(s) > 0 /\ s[Len(s)] = c

\* s[:-1]
ButLast(s) == SubSeq(s, 1, Len(s) - 1)

\* _parse_time_range: (start_time, end_time) for a duration token
ParseTimeRange(time_range, end_time) ==
    LET n == IntOf(ButLast(time_range))
    IN IF EndsWith(time_range, "h")
       THEN IF n.raised THEN [raised |-> TRUE]
            ELSE [raised |-> FALSE, start_time |-> end_time - Hours(n.value),
                  end_time |-> end_time]
       ELSE IF EndsWith(time_range, "d")
       THEN IF n.raised THEN [raised |-> TRUE]
            ELSE [raised |-> FALSE, start_time |-> end_time - Days(n.value),
                  end_time |-> end_time]
       ELSE IF EndsWith(time_range, "w")
       THEN IF n.raised THEN [raised |-> TRUE]
            ELSE [raised |-> FALSE, start_time |-> end_time - Days(7 * n.value),
                  end_time |-> end_time]
       ELSE [raised |-> FALSE, start_time |-> end_time - Hours(24),
             end_time |-> end_time]

\* the granularity of _get_aggregated_metrics: the bucket width of a token
ParseGranularity(granularity) ==
    LET n == IntOf(ButLast(granularity))
    IN IF EndsWith(granularity, "m")
       THEN IF n.raised THEN [raised |-> TRUE]
            ELSE [raised |-> FALSE, interval |-> Minutes(n.value)]
       ELSE IF EndsWith(granularity, "h")
       THEN IF n.raised THEN [raised |-> TRUE]
            ELSE [raised |-> FALSE, interval |-> Hours(n.value)]
       ELSE [raised |-> FALSE, interval |-> Minutes(5)]

\* a caller hands a token over
TokenInit ==
    /\ now = 0
    /\ configured = [storage_backend |-> "database", outcome |-> "ok"]
    /\ storage_backend = "database"
    /\ has_influxdb_client = FALSE
    /\ has_prometheus_registry = FALSE
    /\ pushgateway_url = FALSE
    /\ metric_table = <<>>
    /\ influx_points = {}
    /\ prom_gauges = {}
    /\ pushgateway = {}
    /\ cache = {}
    /\ runs = 0
    /\ preceding = NoOp
    /\ \E token \in Tokens : op = [kind |-> "token", token |-> token]

TimeRangeParsed ==
    /\ op.kind = "token"
    /\ LET parsed == ParseTimeRange(op.token, now)
       IN op' = IF parsed.raised
                THEN [kind |-> "parse_time_range", token |-> op.token, raised |-> TRUE]
                ELSE [kind |-> "parse_time_range", token |-> op.token, raised |-> FALSE,
                      start_time |-> parsed.start_time, end_time |-> parsed.end_time]
    /\ UNCHANGED <<now, collector, stores, cache, runs, preceding>>

GranularityParsed ==
    /\ op.kind = "token"
    /\ LET parsed == ParseGranularity(op.token)
       IN op' = IF parsed.raised
                THEN [kind |-> "parse_granularity", token |-> op.token, raised |-> TRUE]
                ELSE [kind |-> "parse_granularity", token |-> op.token, raised |-> FALSE,
                      interval |-> parsed.interval]
    /\ UNCHANGED <<now, collector, stores, cache, runs, preceding>>

TokenNext == TimeRangeParsed \/ GranularityParsed

TokenSpec == TokenInit /\ [][TokenNext]_vars

-----------------------------------------------------------------------------
(* The Django cache: an entry is a key, a value and the time it expires *)

\* cache.set(cache_key, aggregated, 300): the lifetime of an entry, 300 seconds
CacheTimeout == 5

CacheKey(measurement, tags_filter, start_time, end_time, granularity) ==
    <<"metrics", measurement, tags_filter, start_time, end_time, granularity>>

\* cache.get(key): the value of the live entry of the key, or None
CacheGet(entries, key, time) ==
    IF \E e \in entries : e.key = key /\ e.expires > time
    THEN Some((CHOOSE e \in entries : e.key = key /\ e.expires > time).value)
    ELSE None

\* cache.set(key, value, timeout)
CacheSet(entries, key, value, time, timeout) ==
    { e \in entries : e.key # key }
        \cup { [key |-> key, value |-> value, expires |-> time + timeout] }

-----------------------------------------------------------------------------
(* AnalyticsEngine: aggregation into buckets.  The engine reads through its *)
(* own MetricsCollector(), which is of the default backend, 'database'.     *)

\* datetime.isoformat()
IsoFormat(t) == <<"isoformat", t>>

RECURSIVE SeqSum(_)
SeqSum(values) == IF values = <<>> THEN 0 ELSE Head(values) + SeqSum(Tail(values))

RECURSIVE GCD(_, _)
GCD(a, b) == IF b = 0 THEN a ELSE GCD(b, a % b)

\* statistics.mean(values): the exact quotient, held as a fraction in lowest terms
Mean(values) ==
    LET total == SeqSum(values)
        g == GCD(IF total < 0 THEN 0 - total ELSE total, Len(values))
    IN [num |-> total \div g, den |-> Len(values) \div g]

SeqMin(values) == CHOOSE v \in Range(values) : \A w \in Range(values) : v <= w

SeqMax(values) == CHOOSE v \in Range(values) : \A w \in Range(values) : v >= w

\* a step a minute longer than the interval
NextTimeSkewed(current_time, interval) == current_time + interval + 1

\* next_time = current_time + interval
NextTime(current_time, interval) == current_time + interval

\* one pass of the bucket loop: the bucket of [current_time, next_time), or
\* nothing when no point falls into it
IntervalBucket(raw_data, current_time, next_time) ==
    LET InInterval(point) == /\ current_time <= point.timestamp
                             /\ point.timestamp < next_time
        interval_data == SelectSeq(raw_data, InInterval)
        values == [i \in 1..Len(interval_data) |-> interval_data[i].value]
    IN IF interval_data # <<>>
       THEN << [timestamp |-> IsoFormat(current_time), value |-> Mean(values),
                min |-> SeqMin(values), max |-> SeqMax(values),
                count |-> Len(values)] >>
       ELSE <<>>

\* the bucket loop of _get_aggregated_metrics, from current_time on, for a
\* positive interval: the k-th pass stands at current_time + (k - 1) * interval,
\* and the passes that find points append their bucket, in the order of the
\* passes
AggregateFrom(raw_data, current_time, end_time, interval) ==
    LET passes == IF current_time < end_time
                  THEN ((end_time - current_time) + interval - 1) \div interval
                  ELSE 0
        BucketAt(k) ==
            IntervalBucket(raw_data, current_time + (k - 1) * interval,
                           NextTime(current_time + (k - 1) * interval, interval))
        filled == { k \in 1..passes : BucketAt(k) # <<>> }
        Nth(i) == CHOOSE k \in filled : Cardinality({ j \in filled : j < k }) = i - 1
    IN [i \in 1..Cardinality(filled) |-> BucketAt(Nth(i))[1]]

\* _get_aggregated_metrics: what it returns and the cache it leaves.  A cached
\* value that is not empty is returned as it is; no data gives []; a bad count
\* in the granularity raises ValueError; with an interval that is not positive
\* the loop never reaches end_time
GetAggregatedMetrics(entries, table, time, measurement, tags_filter, start_time, end_time, granularity, fault) ==
    LET cache_key == CacheKey(measurement, tags_filter, start_time, end_time, granularity)
        cached_data == CacheGet(entries, cache_key, time)
        raw_data == QueryDatabase(table, measurement, tags_filter, start_time,
                                  end_time, fault).data
        parsed == ParseGranularity(granularity)
    IN IF cached_data # None /\ cached_data[1] # <<>>
       THEN [data |-> cached_data[1], cache |-> entries, raised |-> FALSE, returns |-> TRUE]
       ELSE IF raw_data = <<>>
       THEN [data |-> <<>>, cache |-> entries, raised |-> FALSE, returns |-> TRUE]
       ELSE IF parsed.raised
       THEN [cache |-> entries, raised |-> TRUE, returns |-> TRUE]
       ELSE IF start_time < end_time /\ parsed.interval <= 0
       THEN [cache |-> entries, raised |-> FALSE, returns |-> FALSE]
       ELSE LET aggregated == AggregateFrom(raw_data, start_time, end_time, parsed.interval)
            IN [data |-> aggregated,
                cache |-> CacheSet(entries, cache_key, aggregated, time, CacheTimeout),
                raised |-> FALSE, returns |-> TRUE]

\* one aggregation over the window [now - 24h, now) of a measurement
AggregatedMetrics(measurement, tags_filter, granularity, fault) ==
    LET start_time == now - Hours(24)
        end_time == now
        got == GetAggregatedMetrics(cache, metric_table, now, measurement, tags_filter,
                                    start_time, end_time, granularity, fault)
    IN /\ got.returns
       /\ cache' = got.cache
       /\ op' = IF got.raised
                THEN [kind |-> "aggregate", measurement |-> measurement,
                      tags |-> tags_filter, start_time |-> start_time,
                      end_time |-> end_time, granularity |-> granularity,
                      fault |-> fault, raised |-> TRUE]
                ELSE [kind |-> "aggregate", measurement |-> measurement,
                      tags |-> tags_filter, start_time |-> start_time,
                      end_time |-> end_time, granularity |-> granularity,
                      fault |-> fault, raised |-> FALSE, data |-> got.data]
       /\ UNCHANGED <<now, collector, stores, runs>>

-----------------------------------------------------------------------------
(* _get_aggregated_metrics, one pass of its bucket loop at a time.  The call *)
(* and its progress are held in op.                                          *)

\* the most passes of the loop the model follows
MaxPasses == 4

\* the most rows of the table an aggregation starts from
MaxRows == 3

\* the times of the rows, and the ends of the ranges asked for (from time 0)
RowTimes == {0, 7, 10}
RangeEnds == {10, 12}

Granularities ==
    { <<"5", "m">>, <<"0", "m">>, <<"0", "h">>, <<"-", "5", "m">>, <<"5", "h">>,
      <<"x", "m">> }

\* the tables a collector can have left: rows in the order of their timestamps
BucketTables ==
    LET Rows == { Metric("system_resources", { <<"resource", "cpu">> },
                         << <<"value", v>> >>, t) : v \in {1, 3}, t \in RowTimes }
    IN { table \in UNION { [1..n -> Rows] : n \in 0..MaxRows } :
           \A i \in 1..(Len(table) - 1) : table[i].timestamp <= table[i + 1].timestamp }

BucketInit ==
    /\ now = 0
    /\ configured = [storage_backend |-> "database", outcome |-> "ok"]
    /\ storage_backend = "database"
    /\ has_influxdb_client = FALSE
    /\ has_prometheus_registry = FALSE
    /\ pushgateway_url = FALSE
    /\ metric_table \in BucketTables
    /\ influx_points = {}
    /\ prom_gauges = {}
    /\ pushgateway = {}
    /\ cache = {}
    /\ runs = 0
    /\ preceding = NoOp
    /\ \E end_time \in RangeEnds : \E granularity \in Granularities :
          op = [kind |-> "aggregation", start_time |-> 0, end_time |-> end_time,
                granularity |-> granularity]

\* lines 203-225: the cache misses, the raw data is fetched and the
\* granularity parsed; no data returns [], a bad count raises
EnterLoop ==
    /\ op.kind = "aggregation"
    /\ LET raw_data == QueryDatabase(metric_table, "system_resources",
                                     { <<"resource", "cpu">> }, op.start_time,
                                     op.end_time, FALSE).data
           parsed == ParseGranularity(op.granularity)
       IN op' = IF raw_data = <<>>
                THEN [kind |-> "aggregated", start_time |-> op.start_time,
                      end_time |-> op.end_time, granularity |-> op.granularity,
                      raw_data |-> raw_data, raised |-> FALSE, data |-> <<>>]
                ELSE IF parsed.raised
                THEN [kind |-> "aggregated", start_time |-> op.start_time,
                      end_time |-> op.end_time, granularity |-> op.granularity,
                      raw_data |-> raw_data, raised |-> TRUE]
                ELSE [kind |-> "bucket_loop", start_time |-> op.start_time,
                      end_time |-> op.end_time, granularity |-> op.granularity,
                      raw_data |-> raw_data, interval |-> parsed.interval,
                      current_time |-> op.start_time, aggregated |-> <<>>,
                      passes |-> 0]
    /\ UNCHANGED <<now, collector, stores, cache, runs, preceding>>

\* lines 228-251: one pass of while current_time < end_time
LoopPass ==
    /\ op.kind = "bucket_loop"
    /\ op.current_time < op.end_time
    /\ op.passes < MaxPasses
    /\ LET next_time == NextTime(op.current_time, op.interval)
       IN op' = [op EXCEPT !.aggregated =
                               @ \o IntervalBucket(op.raw_data, op.current_time, next_time),
                           !.current_time = next_time,
                           !.passes = @ + 1]
    /\ UNCHANGED <<now, collector, stores, cache, runs, preceding>>

\* lines 253-256: the loop is over, the result is cached and returned
LoopExit ==
    /\ op.kind = "bucket_loop"
    /\ ~ (op.current_time < op.end_time)
    /\ op' = [kind |-> "aggregated", start_time |-> op.start_time,
              end_time |-> op.end_time, granularity |-> op.granularity,
              raw_data |-> op.raw_data, raised |-> FALSE, interval |-> op.interval,
              data |-> op.aggregated]
    /\ cache' = CacheSet(cache, CacheKey("system_resources", { <<"resource", "cpu">> },
                                         op.start_time, op.end_time, op.granularity),
                         op.aggregated, now, CacheTimeout)
    /\ UNCHANGED <<now, collector, stores, runs, preceding>>

BucketNext == EnterLoop \/ LoopPass \/ LoopExit

BucketSpec == BucketInit /\ [][BucketNext]_vars

-----------------------------------------------------------------------------
(* AnalyticsEngine: statistics over bucketed series.  Python computes them  *)
(* in floating point; here a value is the exact fraction [num, den].        *)

\* the fraction n / d in lowest terms, with a positive denominator
Fraction(n, d) ==
    LET sign == IF d < 0 THEN -1 ELSE 1
        g == GCD(IF n < 0 THEN 0 - n ELSE n, IF d < 0 THEN 0 - d ELSE d)
    IN [num |-> (sign * n) \div g, den |-> (sign * d) \div g]

Plus(a, b) == Fraction(a.num * b.den + b.num * a.den, a.den * b.den)

Minus(a, b) == Fraction(a.num * b.den - b.num * a.den, a.den * b.den)

Times(a, b) == Fraction(a.num * b.num, a.den * b.den)

\* a / b, for b other than 0
Over(a, b) == Fraction(a.num * b.den, a.den * b.num)

Less(a, b) == a.num * b.den < b.num * a.den

RECURSIVE Sum(_)
Sum(fractions) ==
    IF fractions = <<>> THEN Fraction(0, 1)
    ELSE Plus(Head(fractions), Sum(Tail(fractions)))

\* statistics.mean of values that are fractions
FractionMean(values) == Over(Sum(values), Fraction(Len(values), 1))

\* statistics.stdev(values): the square root of the sample variance
Stdev(values) ==
    LET mean == FractionMean(values)
        squares == [i \in 1..Len(values) |->
                       Times(Minus(values[i], mean), Minus(values[i], mean))]
    IN [sqrt |-> Over(Sum(squares), Fraction(Len(values) - 1, 1))]

\* a test that only an empty series fails
InsufficientDataEmpty(data) == data = <<>>

\* not data or len(data) < 2
InsufficientData(data) == data = <<>> \/ Len(data) < 2

\* a direction whose thresholds are inclusive
DirectionInclusive(slope) ==
    IF ~ Less(slope, Fraction(1, 10)) THEN "increasing"
    ELSE IF ~ Less(Fraction(-1, 10), slope) THEN "decreasing"
    ELSE "stable"

\* lines 327-332: the direction of a slope
Direction(slope) ==
    IF Less(Fraction(1, 10), slope) THEN "increasing"
    ELSE IF Less(slope, Fraction(-1, 10)) THEN "decreasing"
    ELSE "stable"

\* _calculate_trends
CalculateTrends(data) ==
    IF InsufficientData(data)
    THEN [trend |-> "insufficient_data"]
    ELSE LET values == [i \in 1..Len(data) |-> data[i].value]
             n == Len(values)
             x_values == [i \in 1..n |-> Fraction(i - 1, 1)]
             x_mean == FractionMean(x_values)
             y_mean == FractionMean(values)
             numerator == Sum([i \in 1..n |-> Times(Minus(x_values[i], x_mean),
                                                     Minus(values[i], y_mean))])
             denominator == Sum([i \in 1..n |-> Times(Minus(x_values[i], x_mean),
                                                       Minus(x_values[i], x_mean))])
             slope == IF denominator # Fraction(0, 1)
                      THEN Over(numerator, denominator) ELSE Fraction(0, 1)
             trend == Direction(slope)
         IN [trend |-> trend, slope |-> slope, current |-> values[n],
             average |-> FractionMean(values),
             min |-> CHOOSE v \in Range(values) : \A w \in Range(values) : ~ Less(w, v),
             max |-> CHOOSE v \in Range(values) : \A w \in Range(values) : ~ Less(v, w),
             std_dev |-> IF Len(values) > 1 THEN Stdev(values) ELSE Fraction(0, 1)]

\* get_resource_usage_trends, lines 37-41: a trend for every series that is
\* not empty
Trends(metrics_data) ==
    [resource \in { r \in DOMAIN metrics_data : metrics_data[r] # <<>> } |->
        CalculateTrends(metrics_data[resource])]

\* series have at most this many buckets
MaxSeries == 5

\* the series of hourly buckets that _get_aggregated_metrics makes of the
\* samples of each hour
SeriesOf(samples) ==
    Concat([i \in 1..Len(samples) |->
               IntervalBucket([j \in 1..Len(samples[i]) |->
                                  [timestamp |-> Hours(i - 1), value |-> samples[i][j]]],
                              Hours(i - 1), Hours(i))])

\* the samples of one hour, and three series of one sample an hour
HourSamples == { <<0>>, <<1>>, <<0, 1>> }
Rising == << <<10>>, <<20>>, <<30>>, <<40>>, <<50>> >>
Falling == << <<50>>, <<40>>, <<30>>, <<20>>, <<10>> >>
Flat == << <<30>>, <<30>>, <<30>>, <<30>>, <<30>> >>

TrendSeries ==
    { SeriesOf(samples) :
        samples \in UNION { [1..n -> HourSamples] : n \in 0..MaxSeries }
                      \cup {Rising, Falling, Flat} }

\* an engine over an empty table, before any call
FreshEngine ==
    /\ now = 0
    /\ configured = [storage_backend |-> "database", outcome |-> "ok"]
    /\ storage_backend = "database"
    /\ has_influxdb_client = FALSE
    /\ has_prometheus_registry = FALSE
    /\ pushgateway_url = FALSE
    /\ metric_table = <<>>
    /\ influx_points = {}
    /\ prom_gauges = {}
    /\ pushgateway = {}
    /\ cache = {}
    /\ runs = 0
    /\ preceding = NoOp

TrendInit ==
    /\ FreshEngine
    /\ \E cpu \in TrendSeries : \E memory \in { <<>>, SeriesOf(<< <<1>> >>) } :
          op = [kind |-> "series", data |-> cpu, memory |-> memory]

TrendsCalculated ==
    /\ op.kind = "series"
    /\ op' = [kind |-> "trends", data |-> op.data, result |-> CalculateTrends(op.data)]
    /\ UNCHANGED <<now, collector, stores, cache, runs, preceding>>

ResourceUsageTrends ==
    /\ op.kind = "series"
    /\ LET metrics_data == [cpu |-> op.data, memory |-> op.memory,
                            network |-> <<>>, disk |-> <<>>]
       IN op' = [kind |-> "resource_usage_trends", data |-> metrics_data,
                 trends |-> Trends(metrics_data)]
    /\ UNCHANGED <<now, collector, stores, cache, runs, preceding>>

TrendNext == TrendsCalculated \/ ResourceUsageTrends

TrendSpec == TrendInit /\ [][TrendNext]_vars

-----------------------------------------------------------------------------
(* AnalyticsEngine.get_service_performance_analysis *)

\* _get_unique_services: the service ids of the service_replicas rows of the
\* range
UniqueServices(table, start_time, end_time) ==
    { Get(table[i].tags, "service_id", "") :
        i \in { i \in 1..Len(table) : /\ table[i].measurement = "service_replicas"
                                      /\ table[i].timestamp >= start_time
                                      /\ table[i].timestamp <= end_time } } \ {""}

\* a score that gives an unstable service nothing for its replicas
PerformanceScoreNoShare(uptime_percentage, replica_stability) ==
    Over(Plus(uptime_percentage,
              Fraction(IF replica_stability = "stable" THEN 100 ELSE 0, 1)),
         Fraction(2, 1))

\* line 370: min(100, (uptime + (100 if stable else 50)) / 2)
PerformanceScore(uptime_percentage, replica_stability) ==
    LET score == Over(Plus(uptime_percentage,
                           Fraction(IF replica_stability = "stable" THEN 100 ELSE 50, 1)),
                      Fraction(2, 1))
    IN IF Less(Fraction(100, 1), score) THEN Fraction(100, 1) ELSE score

\* _calculate_service_performance
CalculateServicePerformance(replica_data, health_data) ==
    LET healthy_values == [i \in 1..Len(health_data) |-> health_data[i].value]
        replica_values == [i \in 1..Len(replica_data) |-> replica_data[i].value]
        uptime_percentage ==
            IF health_data # <<>>
            THEN Times(Over(Sum(healthy_values), Fraction(Len(healthy_values), 1)),
                       Fraction(100, 1))
            ELSE Fraction(0, 1)
        avg_replicas ==
            IF replica_data # <<>> THEN FractionMean(replica_values) ELSE Fraction(0, 1)
        replica_stability ==
            IF /\ replica_data # <<>>
               /\ Len(replica_values) > 1
               /\ Less(Fraction(1, 1), Stdev(replica_values).sqrt)
            THEN "unstable" ELSE "stable"
    IN [uptime_percentage |-> uptime_percentage, avg_replicas |-> avg_replicas,
        replica_stability |-> replica_stability,
        performance_score |-> PerformanceScore(uptime_percentage, replica_stability)]

\* _generate_service_alerts
GenerateServiceAlerts(performance_stats) ==
    (IF Less(performance_stats.uptime_percentage, Fraction(95, 1))
     THEN <<"Low uptime detected">> ELSE <<>>)
    \o (IF performance_stats.replica_stability = "unstable"
        THEN <<"Replica count fluctuating">> ELSE <<>>)
    \o (IF Less(performance_stats.performance_score, Fraction(70, 1))
        THEN <<"Poor overall performance">> ELSE <<>>)

\* _generate_service_summary
GenerateServiceSummary(analysis) ==
    LET total_services == Cardinality(DOMAIN analysis)
        healthy_services ==
            Cardinality({ service \in DOMAIN analysis :
                            ~ Less(analysis[service].stats.performance_score,
                                   Fraction(80, 1)) })
    IN [total_services |-> total_services, healthy_services |-> healthy_services,
        health_percentage |-> IF total_services > 0
                              THEN Fraction(healthy_services * 100, total_services)
                              ELSE Fraction(0, 1),
        critical_services |-> { service \in DOMAIN analysis :
                                  Less(analysis[service].stats.performance_score,
                                       Fraction(50, 1)) }]

\* data[-50:]
Last(data, n) == SubSeq(data, IF Len(data) > n THEN Len(data) - n + 1 ELSE 1, Len(data))

\* the body of the loop over the services: the entry of one service and the
\* cache the two aggregations leave
ServiceAnalysis(entries, service_filter, start_time, end_time) ==
    LET replicas == GetAggregatedMetrics(entries, metric_table, now, "service_replicas",
                                         service_filter, start_time, end_time,
                                         <<"5", "m">>, FALSE)
        health == GetAggregatedMetrics(replicas.cache, metric_table, now, "service_health",
                                       service_filter, start_time, end_time,
                                       <<"5", "m">>, FALSE)
        performance_stats == CalculateServicePerformance(replicas.data, health.data)
    IN [entry |-> [replica_data |-> Last(replicas.data, 50),
                   health_data |-> Last(health.data, 50),
                   stats |-> performance_stats,
                   alerts |-> GenerateServiceAlerts(performance_stats)],
        cache |-> health.cache]

\* the cache.set calls of the analyses of all services, taken together
CacheSetAll(entries, written) ==
    { e \in entries : \A n \in written : n.key # e.key } \cup written

\* the loop over the services.  The keys of the cache differ from service to
\* service, so the aggregations of each service find the cache as the loop
\* found it, and the loop leaves the entries of all of them
AnalyseServices(entries, services, start_time, end_time) ==
    [analysis |->
         [service \in services |->
             ServiceAnalysis(entries, { <<"service_id", service>> },
                             start_time, end_time).entry],
     cache |->
         CacheSetAll(entries,
             UNION { ServiceAnalysis(entries, { <<"service_id", service>> },
                                     start_time, end_time).cache \ entries :
                     service \in services })]

\* get_service_performance_analysis(service_id, time_range); of more than ten
\* services the ten that list(set) puts first are analysed
GetServicePerformanceAnalysis(service_id, time_range) ==
    LET parsed == ParseTimeRange(time_range, now)
        found == IF service_id # None THEN {service_id[1]}
                 ELSE UniqueServices(metric_table, parsed.start_time, parsed.end_time)
        services == IF Cardinality(found) <= 10 THEN found
                    ELSE CHOOSE ten \in SUBSET found : Cardinality(ten) = 10
        done == AnalyseServices(cache, services, parsed.start_time, parsed.end_time)
    IN /\ IF parsed.raised
          THEN /\ op' = [kind |-> "service_performance", service_id |-> service_id,
                         time_range |-> time_range, raised |-> TRUE]
               /\ UNCHANGED cache
          ELSE /\ op' = [kind |-> "service_performance", service_id |-> service_id,
                         time_range |-> time_range, raised |-> FALSE,
                         start_time |-> parsed.start_time, end_time |-> parsed.end_time,
                         analysis |-> done.analysis,
                         summary |-> GenerateServiceSummary(done.analysis)]
               /\ cache' = done.cache
       /\ UNCHANGED <<now, collector, stores, runs, preceding>>

\* the most health samples of the service in the table
MaxSamples == 5

\* the times of the samples: the first two lie in one 5 minute bucket of the
\* last 24 hours, the others in a bucket each
SampleTimes == {-30, -29, -20, -15, -10, -5}

\* the tables a collector can have left of service s1: one health row at each
\* of some of the times, in the order of the times, after the replica row, if
\* any
HealthTables ==
    LET tags == { <<"service_name", "web">>, <<"service_id", "s1">> }
        Replicas == << Metric("service_replicas", tags,
                              << <<"running", 1>>, <<"total", 1>>, <<"desired", 1>> >>,
                              -30) >>
        Nth(times, i) == CHOOSE t \in times : Cardinality({ u \in times : u < t }) = i - 1
        Health == { [i \in 1..Cardinality(times) |->
                        Metric("service_health", tags,
                               << <<"healthy", healthy[Nth(times, i)]>> >>, Nth(times, i))] :
                      times \in { T \in SUBSET SampleTimes : Cardinality(T) <= MaxSamples },
                      healthy \in [SampleTimes -> {0, 1}] }
    IN Health \cup { Replicas \o table : table \in Health }

PerformanceInit ==
    /\ now = 0
    /\ configured = [storage_backend |-> "database", outcome |-> "ok"]
    /\ storage_backend = "database"
    /\ has_influxdb_client = FALSE
    /\ has_prometheus_registry = FALSE
    /\ pushgateway_url = FALSE
    /\ metric_table \in HealthTables
    /\ influx_points = {}
    /\ prom_gauges = {}
    /\ pushgateway = {}
    /\ cache = {}
    /\ runs = 0
    /\ op = NoOp
    /\ preceding = NoOp

ServicePerformance ==
    /\ op.kind = "none"
    /\ \E service_id \in {None, Some("s1")} :
          GetServicePerformanceAnalysis(service_id, <<"2", "4", "h">>)

PerformanceNext == ServicePerformance

PerformanceSpec == PerformanceInit /\ [][PerformanceNext]_vars

-----------------------------------------------------------------------------
(* AnalyticsEngine._calculate_predictions *)

\* datetime.fromisoformat(text)
FromIsoFormat(text) == text[2]

\* max(a, b) of fractions
Max(a, b) == IF Less(a, b) THEN b ELSE a

\* a confidence without its floor
ConfidenceUnfloored(i) == Minus(Fraction(1, 1), Times(Fraction(i, 1), Fraction(5, 100)))

\* line 419: max(0.1, 1.0 - (i * 0.05))
Confidence(i) ==
    Max(Fraction(1, 10), Minus(Fraction(1, 1), Times(Fraction(i, 1), Fraction(5, 100))))

\* a window that is half the series however long the series is
WindowSizeUncapped(n) == n \div 2

\* line 407: min(10, n // 2)
WindowSize(n) == IF 10 < n \div 2 THEN 10 ELSE n \div 2

CalculatePredictions(data) ==
    IF Len(data) < 5 THEN <<>>
    ELSE LET values == [i \in 1..Len(data) |-> data[i].value]
             n == Len(values)
             window_size == WindowSize(n)
             recent_values == SubSeq(values, n - window_size + 1, n)
             trend == Over(Minus(recent_values[window_size], recent_values[1]),
                           Fraction(window_size, 1))
             last_timestamp == FromIsoFormat(data[Len(data)].timestamp)
         IN [i \in 1..24 |->
               [timestamp |-> IsoFormat(last_timestamp + Hours(i)),
                predicted_value |->
                    Max(Fraction(0, 1),
                        Plus(recent_values[window_size], Times(trend, Fraction(i, 1)))),
                confidence |-> Confidence(i)]]

\* series have at most this many buckets
MaxPoints == 10

\* the longest series: its half exceeds the window of 10
LongPoints == 22

\* long series of one sample an hour, rising by one an hour or falling by
\* one an hour down to 5
LongSamples ==
    { [i \in 1..n |-> << IF rising THEN i ELSE n + 5 - i >>] :
          n \in 20..LongPoints, rising \in BOOLEAN }

PredictionInit ==
    /\ FreshEngine
    /\ \E samples \in UNION { [1..n -> { <<0>>, <<3>> }] : n \in 0..MaxPoints }
                          \cup LongSamples :
          op = [kind |-> "series", data |-> SeriesOf(samples)]

PredictionsCalculated ==
    /\ op.kind = "series"
    /\ op' = [kind |-> "predictions", data |-> op.data,
              predictions |-> CalculatePredictions(op.data)]
    /\ UNCHANGED <<now, collector, stores, cache, runs, preceding>>

PredictionSpec == PredictionInit /\ [][PredictionsCalculated]_vars

-----------------------------------------------------------------------------
(* AnalyticsEngine.export_metrics_data.  A CSV text is held as its lines,   *)
(* a line as its cells, a cell as the value str() is applied to.            *)

\* the keys of a record of _query_database, in the order of the dict
RecordKeys == <<"timestamp", "value", "field", "tags">>

\* str(value)
Str(type, value) == [str |-> type, of |-> value]

\* str() of the value a record holds under a key
StrOf(record, key) ==
    IF key = "timestamp" THEN Str("datetime", record[key])
    ELSE IF key = "value" THEN Str("int", record[key])
    ELSE IF key = "tags" THEN Str("dict", record[key])
    ELSE Str("str", record[key])

\* _format_as_csv: "" without data, else the header line (the keys of the
\* first record) and one line per record
FormatAsCsv(data) ==
    IF data = <<>> THEN <<>>
    ELSE LET headers == RecordKeys
         IN << [j \in 1..Len(headers) |-> Str("str", headers[j])] >>
            \o [i \in 1..Len(data) |->
                   [j \in 1..Len(headers) |-> StrOf(data[i], headers[j])]]

RECURSIVE DecimalDigits(_)
DecimalDigits(n) == IF n < 10 THEN 1 ELSE 1 + DecimalDigits(n \div 10)

\* len(str(datetime)) of an aware datetime without microseconds,
\* 'YYYY-MM-DD HH:MM:SS+00:00'
DatetimeWidth == 25

RECURSIVE PairsWidth(_)
PairsWidth(d) ==
    IF d = {} THEN 0
    ELSE LET kv == CHOOSE kv \in d : TRUE
         IN Len(kv[1]) + Len(kv[2]) + 6 + PairsWidth(d \ {kv})

\* len(str(value)): a dict of strings prints as {'k': 'v', 'k': 'v'}
StrLen(cell) ==
    IF cell.str = "datetime" THEN DatetimeWidth
    ELSE IF cell.str = "int"
         THEN IF cell.of < 0 THEN 1 + DecimalDigits(0 - cell.of) ELSE DecimalDigits(cell.of)
    ELSE IF cell.str = "dict"
         THEN IF cell.of = {} THEN 2
              ELSE 2 + PairsWidth(cell.of) + 2 * (Cardinality(cell.of) - 1)
    ELSE Len(cell.of)

\* len(','.join(cells))
LineLen(line) ==
    SeqSum([j \in 1..Len(line) |-> StrLen(line[j])]) + (Len(line) - 1)

\* len('\n'.join(lines))
CsvLen(lines) ==
    IF lines = <<>> THEN 0
    ELSE SeqSum([i \in 1..Len(lines) |-> LineLen(lines[i])]) + (Len(lines) - 1)

\* sum(len(data) for data in exported_data.values()): a value is a list of
\* records or, in the CSV format, a text
RECURSIVE TotalPoints(_, _, _)
TotalPoints(exported_data, format, names) ==
    IF names = {} THEN 0
    ELSE LET m == CHOOSE m \in names : TRUE
         IN (IF format = "csv" THEN CsvLen(exported_data[m]) ELSE Len(exported_data[m]))
            + TotalPoints(exported_data, format, names \ {m})

ExportMetricsData(measurements, tags_filter, start_time, end_time, format, fault) ==
    LET start == IF start_time = None THEN now - Days(7) ELSE start_time[1]
        end == IF end_time = None THEN now ELSE end_time[1]
        Data(measurement) ==
            QueryDatabase(metric_table, measurement,
                          IF tags_filter = None THEN {} ELSE tags_filter[1],
                          start, end, fault).data
        exported_data ==
            [measurement \in Range(measurements) |->
                IF format = "csv" THEN FormatAsCsv(Data(measurement))
                ELSE Data(measurement)]
    IN /\ op' = [kind |-> "export", format |-> format,
                 start_time |-> IsoFormat(start), end_time |-> IsoFormat(end),
                 measurements |-> measurements, data |-> exported_data,
                 total_points |->
                     TotalPoints(exported_data, format, Range(measurements))]
       /\ preceding' = NoOp
       /\ UNCHANGED <<now, collector, stores, cache, runs>>

-----------------------------------------------------------------------------
(* The clock.  Entries of the cache that have expired are gone. *)

Tick ==
    /\ now < MaxTicks * ClockStep
    /\ now' = now + ClockStep
    /\ cache' = { e \in cache : e.expires > now' }
    /\ op' = [kind |-> "tick"]
    /\ preceding' = NoOp
    /\ UNCHANGED <<collector, stores, runs>>

-----------------------------------------------------------------------------
(* The operations callers issue *)

Measurements == {"service_health", "node_resources"}

TagFilters ==
    { {}, { <<"node_id", "n1">> }, { <<"node_id", "n2">>, <<"role", "manager">> } }

\* the ranges asked for: the default last 24 hours, or the first clock step
TimeRanges == { <<None, None>>, <<Some(0), Some(ClockStep)>> }

\* the arguments of a historical query, and whether the backend fails under it
Queries ==
    [measurement : Measurements, tags : TagFilters, range : TimeRanges, fault : {FALSE}]
    \cup [measurement : Measurements, tags : {{}}, range : { <<None, None>> },
          fault : {TRUE}]

Collect ==
    /\ \E obs \in Observations : \E fault \in BOOLEAN : CollectMetrics(obs, fault)
    /\ preceding' = NoOp

Query ==
    \E q \in Queries :
        GetHistoricalData(q.measurement, q.tags, q.range[1], q.range[2], q.fault)

Cleanup ==
    /\ \E days \in 0..MaxDays : \E fault \in BOOLEAN : CleanupOldMetrics(days, fault)
    /\ preceding' = NoOp

\* node capacity over 5 hour buckets
Aggregate ==
    /\ AggregatedMetrics("node_resources", {}, <<"5", "h">>, FALSE)
    /\ preceding' = NoOp

\* an export of the last 7 days in either format
Export ==
    \E format \in {"json", "csv"} :
        ExportMetricsData(<<"service_health", "node_resources">>, None, None, None,
                          format, FALSE)

Next == Collect \/ Query \/ Cleanup \/ Aggregate \/ Export \/ Tick

Spec == Init /\ [][Next]_vars

-----------------------------------------------------------------------------
(* Aggregation calls among writes and cleanups.  preceding keeps the        *)
(* aggregation call before the last one, until the clock moves.             *)

CacheInit ==
    /\ now = 0
    /\ configured = [storage_backend |-> "database", outcome |-> "ok"]
    /\ storage_backend = "database"
    /\ has_influxdb_client = FALSE
    /\ has_prometheus_registry = FALSE
    /\ pushgateway_url = FALSE
    /\ metric_table = <<>>
    /\ influx_points = {}
    /\ prom_gauges = {}
    /\ pushgateway = {}
    /\ cache = {}
    /\ runs = 0
    /\ op = NoOp
    /\ preceding = NoOp

\* the aggregation call last made
LastAggregation == IF op.kind = "aggregate" THEN op ELSE preceding

CacheCollect ==
    /\ \E obs \in Observations : \E fault \in BOOLEAN : CollectMetrics(obs, fault)
    /\ preceding' = LastAggregation

CacheCleanup ==
    /\ \E days \in 0..MaxDays : CleanupOldMetrics(days, FALSE)
    /\ preceding' = LastAggregation

\* node capacity over 50 minute or 5 hour buckets
CacheAggregate ==
    /\ \E granularity \in { <<"5", "0", "m">>, <<"5", "h">> } :
          AggregatedMetrics("node_resources", {}, granularity, FALSE)
    /\ preceding' = LastAggregation

CacheNext == CacheCollect \/ CacheCleanup \/ CacheAggregate \/ Tick

CacheSpec == CacheInit /\ [][CacheNext]_vars

-----------------------------------------------------------------------------
(* Properties *)

\* how often a value occurs in a sequence
Count(seq, x) == Cardinality({ i \in 1..Len(seq) : seq[i] = x })

\* the rows of the Metric table a query for (measurement, tags, start, end)
\* is to answer, as positions of the table
Answering(measurement, tags, start, end) ==
    { i \in 1..Len(metric_table) :
        /\ metric_table[i].measurement = measurement
        /\ metric_table[i].timestamp >= start
        /\ metric_table[i].timestamp <= end
        /\ \A kv \in tags : kv \in metric_table[i].tags }

\* the fields of the given rows of the table, as <<row, field>> positions
StoredFields(rows) ==
    UNION { { <<i, k>> : k \in 1..Len(metric_table[i].fields) } : i \in rows }

\* the record a stored field is returned as
RecordOf(point, k) ==
    [timestamp |-> point.timestamp, value |-> point.fields[k][2],
     field |-> point.fields[k][1], tags |-> point.tags]

\* the records a batch holds for one measurement, in the order of the batch
RECURSIVE BatchRecords(_, _)
BatchRecords(metrics, measurement) ==
    IF metrics = <<>> THEN <<>>
    ELSE (IF Head(metrics).measurement = measurement
          THEN [k \in 1..Len(Head(metrics).fields) |-> RecordOf(Head(metrics), k)]
          ELSE <<>>)
         \o BatchRecords(Tail(metrics), measurement)

\* the configured backend was initialised, the last operation is a query issued
\* right after a collection run, neither met a storage failure, the range
\* starts no later than the timestamp of the run and ends after it, no tag is
\* filtered on and no earlier row of the table carries that timestamp
QueryRightAfterWrite ==
    /\ configured.outcome = "ok"
    /\ op.kind = "query" /\ ~ op.fault /\ op.tags = {}
    /\ preceding.kind = "collect" /\ ~ preceding.fault
    /\ op.start_time <= preceding.summary.timestamp
    /\ preceding.summary.timestamp < op.end_time
    /\ Cardinality({ i \in 1..Len(metric_table) :
                       metric_table[i].timestamp = preceding.summary.timestamp })
         <= Len(preceding.metrics)

\* C1: a query issued right after a collection run, over a range covering the
\* timestamp of the run, returns for that timestamp exactly the field values
\* of the points of the run (one record per field), whichever backend is active
C1_RoundTrip ==
    QueryRightAfterWrite =>
        LET AtRun(rec) == rec.timestamp = preceding.summary.timestamp
        IN SelectSeq(op.data, AtRun) = BatchRecords(preceding.metrics, op.measurement)

\* the round trip on the relational backend alone
C1_RoundTripDatabase == storage_backend = "database" => C1_RoundTrip

\* the query returned the four records of a run stored in the table
C1_RoundTripDatabaseWitness ==
    /\ QueryRightAfterWrite /\ storage_backend = "database"
    /\ Len(op.data) > 2
    /\ Len(BatchRecords(preceding.metrics, op.measurement)) > 2

\* C2: every record a query returns carries every key/value pair of the tag
\* filter and comes from a stored point of the requested measurement
C2_TagFilter ==
    op.kind = "query" =>
        \A n \in 1..Len(op.data) :
            /\ \A kv \in op.tags : kv \in op.data[n].tags
            /\ \/ \E i \in 1..Len(metric_table) :
                     /\ metric_table[i].measurement = op.measurement
                     /\ metric_table[i].tags = op.data[n].tags
                     /\ metric_table[i].timestamp = op.data[n].timestamp
                     /\ <<op.data[n].field, op.data[n].value>>
                            \in Range(metric_table[i].fields)
               \/ \E pt \in influx_points :
                     /\ pt.measurement = op.measurement
                     /\ pt.tags \subseteq op.data[n].tags
                     /\ pt.field = op.data[n].field

\* a filtered query returned records while the store also holds points of the
\* same measurement and range that do not carry the filter's tags
C2_Witness ==
    /\ op.kind = "query" /\ op.tags # {} /\ op.data # <<>>
    /\ \E i \in Answering(op.measurement, {}, op.start_time, op.end_time) :
          ~ (op.tags \subseteq metric_table[i].tags)

InitFailed == configured.outcome \in {"client_raises", "ping_raises", "gauge_raises"}

SystemMeasurements == {"system_containers", "system_resources", "swarm_info"}
ServiceMeasurements == {"service_replicas", "service_health"}
NodeMeasurements == {"node_resources", "node_status"}

PointsOf(metrics, measurements) ==
    { i \in 1..Len(metrics) : metrics[i].measurement \in measurements }

\* C5: in a run, a sub-collection whose observer calls fail contributes no
\* point, and the points of the other sub-collections are collected and,
\* when the database accepts the write, stored
C5_Independent ==
    op.kind = "collect" =>
        /\ (op.obs.system_info = {} /\ op.obs.swarm_info = {})
              => PointsOf(op.metrics, SystemMeasurements) = {}
        /\ op.obs.services = <<>> => PointsOf(op.metrics, ServiceMeasurements) = {}
        /\ op.obs.nodes = <<>> => PointsOf(op.metrics, NodeMeasurements) = {}
        /\ op.obs.system_info # {} => PointsOf(op.metrics, SystemMeasurements) # {}
        /\ op.obs.services # <<>> => PointsOf(op.metrics, ServiceMeasurements) # {}
        /\ op.obs.nodes # <<>> => PointsOf(op.metrics, NodeMeasurements) # {}
        /\ (storage_backend = "database" /\ ~ op.fault) =>
              \A i \in 1..Len(op.metrics) : op.metrics[i] \in Range(metric_table)

\* the part of C5 the code keeps: the sub-collections whose calls answer are
\* collected and stored whatever the others do, and a failed service or node
\* sub-collection contributes no point
C5_OthersCollected ==
    op.kind = "collect" =>
        /\ op.obs.services = <<>> => PointsOf(op.metrics, ServiceMeasurements) = {}
        /\ op.obs.nodes = <<>> => PointsOf(op.metrics, NodeMeasurements) = {}
        /\ op.obs.system_info # {} => PointsOf(op.metrics, SystemMeasurements) # {}
        /\ op.obs.services # <<>> => PointsOf(op.metrics, ServiceMeasurements) # {}
        /\ op.obs.nodes # <<>> => PointsOf(op.metrics, NodeMeasurements) # {}
        /\ (storage_backend = "database" /\ ~ op.fault) =>
              \A i \in 1..Len(op.metrics) : op.metrics[i] \in Range(metric_table)

\* the stores a backend keeps points in
point_stores == <<metric_table, influx_points, pushgateway>>

\* C6: a storage failure under a run or a query is not raised: the run
\* returns a summary, the query returns the empty sequence, and the stored
\* points are those stored before
C6_FailureSwallowed ==
    /\ [](op.kind \in {"collect", "query"} => ~ op.raised)
    /\ []((op.kind = "collect" /\ op.fault) => op.summary.timestamp = now)
    /\ []((op.kind = "query" /\ op.fault) => op.data = <<>>)
    /\ [][(op'.kind \in {"collect", "query"} /\ op'.fault) => UNCHANGED point_stores]_vars

\* a run met a storage failure while the table held points
C6_Witness ==
    /\ op.kind = "collect" /\ op.fault /\ op.metrics # <<>>
    /\ storage_backend = "database" /\ metric_table # <<>>

\* C7: get_historical_data leaves the stored points, the selected backend
\* and the client handles as they were
C7_PureRead ==
    [][op'.kind = "query" =>
          UNCHANGED <<metric_table, influx_points, prom_gauges, pushgateway,
                      storage_backend, has_influxdb_client,
                      has_prometheus_registry>>]_vars

\* a query met a storage failure right after a run was stored
C7_Witness ==
    /\ op.kind = "query" /\ op.fault
    /\ preceding.kind = "collect" /\ metric_table # <<>>

\* the rows of a table that are not older than a cutoff, in the table's order
NotOlder(table, cutoff) ==
    LET Newer(row) == row.timestamp >= cutoff IN SelectSeq(table, Newer)

C9_Cleanup ==
    [][(op'.kind = "cleanup" /\ ~ op'.raised) =>
          IF storage_backend = "database"
          THEN /\ metric_table' = NotOlder(metric_table, now - op'.days * 24 * 60)
               /\ op'.deleted_count = Len(metric_table) - Len(metric_table')
               /\ UNCHANGED <<influx_points, prom_gauges, pushgateway>>
          ELSE /\ UNCHANGED stores
               /\ op'.deleted_count = 0]_vars

\* a cleanup deleted rows and kept a row stored exactly at its cutoff
C9_Witness ==
    /\ op.kind = "cleanup" /\ ~ op.raised /\ op.deleted_count > 0
    /\ \E i \in 1..Len(metric_table) :
          metric_table[i].timestamp = now - op.days * 24 * 60

\* a count in digits: one digit or more
IsCount(s) == s # <<>> /\ \A i \in 1..Len(s) : s[i] \in Digits

\* <N>h, <N>d or <N>w
ValidDuration(token) ==
    /\ Len(token) >= 2 /\ token[Len(token)] \in {"h", "d", "w"}
    /\ IsCount(SubSeq(token, 1, Len(token) - 1))

\* <N>m or <N>h
ValidGranularity(token) ==
    /\ Len(token) >= 2 /\ token[Len(token)] \in {"m", "h"}
    /\ IsCount(SubSeq(token, 1, Len(token) - 1))

\* C10: parsing a token never raises: a duration token that is not a valid
\* <N>h, <N>d or <N>w gives the last 24 hours, and a granularity token that
\* is not a valid <N>m or <N>h gives 5 minutes
C10_LenientTokens ==
    /\ op.kind = "parse_time_range" =>
          /\ ~ op.raised
          /\ ~ ValidDuration(op.token) => op.end_time - op.start_time = 24 * 60
    /\ op.kind = "parse_granularity" =>
          /\ ~ op.raised
          /\ ~ ValidGranularity(op.token) => op.interval = 5

\* the part of C10 the code keeps: a token that does not end in a unit letter
\* gives the default, and a valid token gives its own width
C10_UnitlessTokens ==
    /\ op.kind = "parse_time_range" =>
          /\ (op.token = <<>> \/ op.token[Len(op.token)] \notin {"h", "d", "w"}) =>
                (~ op.raised /\ op.end_time - op.start_time = 24 * 60)
          /\ ValidDuration(op.token) => ~ op.raised
    /\ op.kind = "parse_granularity" =>
          /\ (op.token = <<>> \/ op.token[Len(op.token)] \notin {"m", "h"}) =>
                (~ op.raised /\ op.interval = 5)
          /\ ValidGranularity(op.token) => ~ op.raised

-----------------------------------------------------------------------------
(* Aggregation: the bucket loop (checked under BucketSpec) *)

\* C11: for every granularity the parser accepts, '0m', '0h' and '-5m'
\* included, the bucket loop over a non-empty range ends: every pass moves
\* current_time forward by at least a minute, so that after p passes it stands
\* at start_time + p or later and reaches end_time
C11_LoopTerminates ==
    op.kind = "bucket_loop" => op.current_time >= op.start_time + op.passes

\* the loops of a positive interval do end: they leave the loop within
\* end_time - start_time passes
C11_PositiveIntervalEnds ==
    (op.kind = "bucket_loop" /\ op.interval > 0)
        => /\ op.current_time = op.start_time + op.passes * op.interval
           /\ op.passes <= op.end_time - op.start_time

BucketTime(bucket) == bucket.timestamp[2]

BucketCounts(data) == SeqSum([i \in 1..Len(data) |-> data[i].count])

\* C12: every raw record of the queried range lies in exactly one bucket: the
\* counts of the buckets returned add up to the number of raw records, a
\* record at end_time included
C12_EveryRecordCounted ==
    (op.kind = "aggregated" /\ ~ op.raised)
        => BucketCounts(op.data) = Len(op.raw_data)

\* the records before end_time are each counted once; one at end_time is
\* counted when the last bucket reaches past end_time, and left out when the
\* range is a whole number of intervals
C12_RecordsBeforeEndCounted ==
    (op.kind = "aggregated" /\ ~ op.raised /\ op.raw_data # <<>>)
        => LET BeforeEnd(point) == point.timestamp < op.end_time
           IN BucketCounts(op.data) =
                  IF (op.end_time - op.start_time) % op.interval = 0
                  THEN Len(SelectSeq(op.raw_data, BeforeEnd))
                  ELSE Len(op.raw_data)

\* C13: two buckets adjacent in the returned sequence lie one interval apart
C13_AdjacentBucketsOneInterval ==
    (op.kind = "aggregated" /\ ~ op.raised)
        => \A i \in 1..(Len(op.data) - 1) :
              BucketTime(op.data[i + 1]) = BucketTime(op.data[i]) + op.interval

\* C13, as the code has it: the buckets returned lie on the grid of the
\* interval from start_time, in ascending order; two adjacent ones lie a whole
\* positive number of intervals apart, and only buckets without a record are
\* left out
C13_BucketsOnGrid ==
    (op.kind = "aggregated" /\ ~ op.raised /\ op.data # <<>>)
        => /\ \A i \in 1..Len(op.data) :
                 /\ BucketTime(op.data[i]) >= op.start_time
                 /\ BucketTime(op.data[i]) < op.end_time
                 /\ (BucketTime(op.data[i]) - op.start_time) % op.interval = 0
           /\ \A i \in 1..(Len(op.data) - 1) :
                 /\ BucketTime(op.data[i + 1]) > BucketTime(op.data[i])
                 /\ (BucketTime(op.data[i + 1]) - BucketTime(op.data[i])) % op.interval = 0
           /\ \A point \in Range(op.raw_data) :
                 point.timestamp < op.end_time
                     => \E i \in 1..Len(op.data) :
                           /\ BucketTime(op.data[i]) <= point.timestamp
                           /\ point.timestamp < BucketTime(op.data[i]) + op.interval

C13_Witness ==
    /\ op.kind = "aggregated" /\ ~ op.raised
    /\ Len(op.data) = 2
    /\ BucketTime(op.data[2]) = BucketTime(op.data[1]) + 2 * op.interval

\* the loop followed pass by pass returns what AggregateFrom gives
BucketLoopAgrees ==
    (op.kind = "aggregated" /\ ~ op.raised /\ op.raw_data # <<>>)
        => op.data = AggregateFrom(op.raw_data, op.start_time, op.end_time, op.interval)

-----------------------------------------------------------------------------
(* Aggregation: the cache (checked under CacheSpec) *)

\* the last two aggregation calls had the same parameters, with no move of the
\* clock between them, and both returned
SameCallAgain ==
    /\ op.kind = "aggregate" /\ ~ op.raised
    /\ preceding.kind = "aggregate" /\ ~ preceding.raised
    /\ op.measurement = preceding.measurement
    /\ op.tags = preceding.tags
    /\ op.start_time = preceding.start_time
    /\ op.end_time = preceding.end_time
    /\ op.granularity = preceding.granularity

\* C14: within the lifetime of the cache two aggregation calls of the same
\* parameters return the same result, whatever was written or cleaned up
\* between them, also when the first call found no data
C14_IdenticalResults == SameCallAgain => op.data = preceding.data

\* a first call that returned buckets is repeated by the second call
C14_CachedResultRepeats ==
    (SameCallAgain /\ preceding.data # <<>>) => op.data = preceding.data

C14_CachedResultRepeatsWitness ==
    /\ SameCallAgain /\ preceding.data # <<>>
    /\ AggregateFrom(QueryDatabase(metric_table, op.measurement, op.tags, op.start_time,
                                   op.end_time, FALSE).data,
                     op.start_time, op.end_time,
                     ParseGranularity(op.granularity).interval) # op.data

-----------------------------------------------------------------------------
(* Trends (checked under TrendSpec) *)

\* the values of a series, doubled: whole numbers, the means being halves
Doubled(data) == [i \in 1..Len(data) |-> (2 * data[i].value.num) \div data[i].value.den]

\* the least-squares slope of the doubled values y against the index
\* x = 0..n-1 is SlopeNum / SlopeDen, where SlopeNum = n * Sxy - Sx * Sy and
\* SlopeDen = n * Sxx - Sx * Sx > 0
SlopeNum(y) ==
    LET n == Len(y)
    IN n * SeqSum([i \in 1..n |-> (i - 1) * y[i]])
         - SeqSum([i \in 1..n |-> i - 1]) * SeqSum(y)

SlopeDen(y) ==
    LET n == Len(y)
    IN n * SeqSum([i \in 1..n |-> (i - 1) * (i - 1)])
         - SeqSum([i \in 1..n |-> i - 1]) * SeqSum([i \in 1..n |-> i - 1])

\* C15: for a series of at least 2 buckets the direction is 'increasing'
\* exactly when the least-squares slope of value against bucket index is above
\* 0.1, 'decreasing' exactly when it is below -0.1, 'stable' otherwise;
\* 10..50 rises, 50..10 falls, five times 30 is stable
C15_TrendDirection ==
    (op.kind = "trends" /\ Len(op.data) >= 2)
        => LET y == Doubled(op.data)
               \* slope of the values = SlopeNum / (2 * SlopeDen)
               above == 10 * SlopeNum(y) > 2 * SlopeDen(y)
               below == 10 * SlopeNum(y) < 0 - 2 * SlopeDen(y)
           IN /\ SlopeDen(y) > 0
              /\ op.result.trend = "increasing" <=> above
              /\ op.result.trend = "decreasing" <=> below
              /\ op.result.trend = "stable" <=> (~ above /\ ~ below)
              /\ op.data = SeriesOf(Rising) => op.result.trend = "increasing"
              /\ op.data = SeriesOf(Falling) => op.result.trend = "decreasing"
              /\ op.data = SeriesOf(Flat) => op.result.trend = "stable"

\* a series whose slope is exactly 0.1, held to be stable
C15_Witness ==
    /\ op.kind = "trends" /\ Len(op.data) >= 2
    /\ 10 * SlopeNum(Doubled(op.data)) = 2 * SlopeDen(Doubled(op.data))
    /\ op.result.trend = "stable"

\* C16: the trend of an empty series or of a series of one point is the
\* marker 'insufficient_data' and carries no slope, and no trend of a longer
\* series is the marker: a caller can tell no trend from a flat one
C16_InsufficientData ==
    /\ op.kind = "trends" =>
          IF Len(op.data) < 2
          THEN op.result = [trend |-> "insufficient_data"]
          ELSE /\ op.result.trend \in {"increasing", "decreasing", "stable"}
               /\ "slope" \in DOMAIN op.result
    /\ op.kind = "resource_usage_trends" =>
          \A resource \in DOMAIN op.trends :
              Len(op.data[resource]) < 2
                  => op.trends[resource] = [trend |-> "insufficient_data"]

C16_Witness ==
    /\ op.kind = "trends" /\ Len(op.data) = 1
    /\ op.result.trend = "insufficient_data"

-----------------------------------------------------------------------------
(* Service performance (checked under PerformanceSpec) *)

\* the health rows of service s1 in the table
HealthSamples ==
    LET IsHealth(row) == row.measurement = "service_health"
    IN SelectSeq(metric_table, IsHealth)

\* the analysis asked for service s1 returned
AnalysedS1 == op.kind = "service_performance" /\ ~ op.raised /\ op.service_id = Some("s1")

\* C17: a statistic that has no samples is given as a marker a caller can tell
\* from a computed value: a service without health samples is not reported
\* with an uptime_percentage of 0 and the alert 'Low uptime detected'
C17_NoComputedZero ==
    (AnalysedS1 /\ HealthSamples = <<>>)
        => /\ op.analysis["s1"].stats.uptime_percentage # Fraction(0, 1)
           /\ "Low uptime detected" \notin Range(op.analysis["s1"].alerts)

\* what the code reports of a service without health samples is what it
\* reports of one that was never healthy: an uptime of 0
C17_ZeroOfNoSamples ==
    (AnalysedS1 /\ \A i \in 1..Len(HealthSamples) : HealthSamples[i].fields[1][2] = 0)
        => /\ op.analysis["s1"].stats.uptime_percentage = Fraction(0, 1)
           /\ "Low uptime detected" \in Range(op.analysis["s1"].alerts)

\* four samples of the five are healthy
FourOfFiveHealthy ==
    /\ Len(HealthSamples) = 5
    /\ Cardinality({ i \in 1..5 : HealthSamples[i].fields[1][2] = 1 }) = 4

\* C18: with 4 healthy samples and 1 unhealthy one in the 24 hours analysed
\* the uptime_percentage is 80, however the samples fall into the 5 minute
\* buckets
C18_UptimeEighty ==
    (AnalysedS1 /\ FourOfFiveHealthy)
        => op.analysis["s1"].stats.uptime_percentage = Fraction(80, 1)

\* it is 80 when each sample has a bucket of its own
C18_UptimeOfSeparateBuckets ==
    (AnalysedS1 /\ FourOfFiveHealthy
       /\ \A i, j \in 1..5 :
             i # j => HealthSamples[i].timestamp \div 5 # HealthSamples[j].timestamp \div 5)
        => op.analysis["s1"].stats.uptime_percentage = Fraction(80, 1)

-----------------------------------------------------------------------------
(* Predictions (checked under PredictionSpec) *)

\* predictions were made of a series of 10 samples of one value
ConstantSeriesPredicted ==
    /\ op.kind = "predictions"
    /\ Len(op.data) = 10
    /\ \A i \in 1..10 : op.data[i].value = op.data[1].value

\* C19: a series of 10 samples of the value V gives 24 predictions of the
\* value V, whose confidences fall strictly from each step to the next over
\* all 24 steps and are never below 0.1
C19_StrictlyDecreasing ==
    ConstantSeriesPredicted
        => /\ Len(op.predictions) = 24
           /\ \A i \in 1..24 :
                 /\ op.predictions[i].predicted_value = op.data[1].value
                 /\ ~ Less(op.predictions[i].confidence, Fraction(1, 10))
           /\ \A i \in 1..23 :
                 Less(op.predictions[i + 1].confidence, op.predictions[i].confidence)

\* C19, as the code has it: 24 predictions of the value V; the confidence is
\* 1 - 0.05 i, falling strictly, down to 0.1 at the 18th step, and stays at
\* the floor of 0.1 from there to the 24th
C19_DecreasingToFloor ==
    ConstantSeriesPredicted
        => /\ Len(op.predictions) = 24
           /\ \A i \in 1..24 :
                 /\ op.predictions[i].predicted_value = op.data[1].value
                 /\ ~ Less(op.predictions[i].confidence, Fraction(1, 10))
                 /\ op.predictions[i].timestamp[2]
                        = op.data[10].timestamp[2] + 60 * i
           /\ \A i \in 1..17 :
                 /\ op.predictions[i].confidence = Fraction(100 - 5 * i, 100)
                 /\ Less(op.predictions[i + 1].confidence, op.predictions[i].confidence)
           /\ \A i \in 18..24 : op.predictions[i].confidence = Fraction(1, 10)

C19_Witness ==
    /\ ConstantSeriesPredicted
    /\ op.data[1].value = Fraction(3, 1)
    /\ op.predictions[23].confidence = op.predictions[24].confidence

-----------------------------------------------------------------------------
(* Export (checked under Spec) *)

\* the number of data points the export fetched, over its measurements
PointsFetched ==
    SeqSum([i \in 1..Len(op.measurements) |->
               Len(QueryDatabase(metric_table, op.measurements[i], {}, op.start_time[2],
                                 op.end_time[2], FALSE).data)])

\* C20: in both formats the total_points of an export is the number of data
\* points fetched over all the measurements asked for
C20_TotalPoints == op.kind = "export" => op.total_points = PointsFetched

\* it is in the structured format
C20_TotalPointsStructured ==
    (op.kind = "export" /\ op.format = "json") => op.total_points = PointsFetched

-----------------------------------------------------------------------------
(* Export of a measurement whose points hold the fields a and b (CsvSpec) *)

\* the most points of the measurement the table holds
MaxExported == 3

\* points of the measurement m with the fields {'a': 1, 'b': 2}
ExportedPoints ==
    { Point("m", tags, << <<"a", 1>>, <<"b", 2>> >>, t) :
          tags \in { {}, { <<"host", "h1">> },
                     { <<"host", "h1">>, <<"role", "manager">> } },
          t \in {-2, -1, 0} }

\* a database collector whose table holds one stored batch of such points
CsvInit ==
    /\ now = 0
    /\ configured = [storage_backend |-> "database", outcome |-> "ok"]
    /\ storage_backend = "database"
    /\ has_influxdb_client = FALSE
    /\ has_prometheus_registry = FALSE
    /\ pushgateway_url = FALSE
    /\ \E n \in 0..MaxExported : \E metrics \in [1..n -> ExportedPoints] :
          metric_table = StoreToDatabase(<<>>, metrics, FALSE).table
    /\ influx_points = {}
    /\ prom_gauges = {}
    /\ pushgateway = {}
    /\ cache = {}
    /\ runs = 0
    /\ op = NoOp
    /\ preceding = NoOp

\* export_metrics_data(['m'], format=format) over the default last 7 days
CsvExport ==
    /\ op.kind = "none"
    /\ \E format \in {"json", "csv"} :
          ExportMetricsData(<<"m">>, None, None, None, format, FALSE)

CsvSpec == CsvInit /\ [][CsvExport]_vars

\* the lines of the CSV text exported for the measurement m
CsvLines == op.data["m"]

ThreePointsExported ==
    op.kind = "export" /\ op.format = "csv" /\ Len(metric_table) = 3

\* C21: the CSV export of a measurement of 3 points with the fields {a: 1, b: 2}
\* is a header line of the two columns a, b and exactly 3 data lines, whose
\* cells read back as the numbers 1 and 2
C21_CsvRoundTrip ==
    ThreePointsExported =>
        /\ Len(CsvLines) = 4
        /\ CsvLines[1] = << Str("str", "a"), Str("str", "b") >>
        /\ \A i \in 2..4 : CsvLines[i] = << Str("int", 1), Str("int", 2) >>

\* what the export gives: the header names the four keys of a record, and
\* every field of every point has a line of its own, 6 data lines for 3 points
C21_OneLinePerField ==
    ThreePointsExported =>
        /\ Len(CsvLines) = 7
        /\ CsvLines[1] = [j \in 1..4 |-> Str("str", RecordKeys[j])]
        /\ \A i \in 1..3 :
              /\ CsvLines[2 * i][2] = Str("int", 1)
              /\ CsvLines[2 * i][3] = Str("str", "a")
              /\ CsvLines[2 * i + 1][2] = Str("int", 2)
              /\ CsvLines[2 * i + 1][3] = Str("str", "b")

-----------------------------------------------------------------------------
(* Two collector instances of one deployment running collect_metrics side   *)
(* by side (ConcurrentSpec).  op holds each instance's position in its run, *)
(* what it has collected and, on the prometheus backend, its own registry.  *)

Instances == {1, 2}

ConcurrentInit ==
    \E backend \in Backends : \E outcome \in InitOutcomes(backend) :
        /\ now = 0
        /\ configured = [storage_backend |-> backend, outcome |-> outcome]
        /\ storage_backend = Construct(backend, outcome).storage_backend
        /\ has_influxdb_client = Construct(backend, outcome).has_influxdb_client
        /\ has_prometheus_registry = Construct(backend, outcome).has_prometheus_registry
        /\ pushgateway_url \in (IF backend = "prometheus" /\ outcome = "ok"
                                THEN BOOLEAN ELSE {FALSE})
        /\ metric_table = <<>>
        /\ influx_points = {}
        /\ prom_gauges = {}
        /\ pushgateway = {}
        /\ cache = {}
        /\ runs = 0
        /\ op = [kind |-> "instances",
                 run |-> [p \in Instances |-> [pc |-> "idle"]],
                 registry |-> [p \in Instances |-> {}]]
        /\ preceding = NoOp

\* collect_metrics up to the store: the timestamp is taken and the three
\* sub-collections build the batch
InstanceCollects(p) ==
    /\ op.run[p].pc = "idle"
    /\ \E obs \in Observations :
          LET timestamp == now
              system_metrics == CollectSystemMetrics(timestamp, obs.system_info,
                                                     obs.swarm_info)
              service_metrics == CollectServiceMetrics(timestamp, obs.services)
              node_metrics == CollectNodeMetrics(timestamp, obs.nodes)
          IN op' = [op EXCEPT !.run[p] =
                       [pc |-> "collected", timestamp |-> timestamp,
                        system_metrics |-> system_metrics,
                        service_metrics |-> service_metrics,
                        node_metrics |-> node_metrics,
                        metrics |-> system_metrics \o service_metrics \o node_metrics]]
    /\ UNCHANGED <<now, collector, stores, cache, runs, preceding>>

\* the store call of the run, one request to the backend, and the summary
InstanceStores(p) ==
    /\ op.run[p].pc = "collected"
    /\ \E fault \in BOOLEAN :
          LET run == op.run[p]
              influx == StoreToInfluxdb(influx_points, run.metrics,
                                        has_influxdb_client, fault)
              prom == StoreToPrometheus(op.registry[p], pushgateway, run.system_metrics,
                                        run.service_metrics, run.node_metrics,
                                        has_prometheus_registry, pushgateway_url, fault)
              db == StoreToDatabase(metric_table, run.metrics, fault)
              raised == IF storage_backend = "influxdb" THEN influx.raised
                        ELSE IF storage_backend = "prometheus" THEN prom.raised
                        ELSE db.raised
          IN /\ influx_points' = IF storage_backend = "influxdb"
                                 THEN influx.points ELSE influx_points
             /\ pushgateway' = IF storage_backend = "prometheus"
                               THEN prom.gateway ELSE pushgateway
             /\ metric_table' = IF storage_backend \notin {"influxdb", "prometheus"}
                                THEN db.table ELSE metric_table
             /\ op' = [op EXCEPT
                          !.run[p] = [pc |-> "done", timestamp |-> run.timestamp,
                                      system_metrics |-> run.system_metrics,
                                      service_metrics |-> run.service_metrics,
                                      node_metrics |-> run.node_metrics,
                                      metrics |-> run.metrics, fault |-> fault,
                                      summary |-> Summary(run.metrics, run.timestamp,
                                                          raised)],
                          !.registry[p] = IF storage_backend = "prometheus"
                                          THEN prom.gauges ELSE @]
    /\ UNCHANGED <<now, collector, prom_gauges, cache, runs, preceding>>

\* the clock moves while the instances run
ClockMoves ==
    /\ now < MaxTicks * ClockStep
    /\ now' = now + ClockStep
    /\ cache' = { e \in cache : e.expires > now' }
    /\ UNCHANGED <<collector, stores, runs, op, preceding>>

ConcurrentNext ==
    \/ \E p \in Instances : InstanceCollects(p)
    \/ \E p \in Instances : InstanceStores(p)
    \/ ClockMoves

ConcurrentSpec == ConcurrentInit /\ [][ConcurrentNext]_vars

\* both instances have finished their runs, and no store call failed
BothFinished ==
    /\ op.kind = "instances"
    /\ \A p \in Instances : op.run[p].pc = "done" /\ ~ op.run[p].fault

\* what the active backend holds: rows, field values or pushed samples
Held ==
    IF storage_backend = "influxdb" THEN influx_points
    ELSE IF storage_backend = "prometheus" THEN pushgateway
    ELSE Range(metric_table)

HeldCount ==
    IF storage_backend \in {"influxdb", "prometheus"} THEN Cardinality(Held)
    ELSE Len(metric_table)

\* what the run of an instance leaves in an empty store when it runs alone
Alone(p) ==
    LET run == op.run[p]
    IN IF storage_backend = "influxdb"
       THEN StoreToInfluxdb({}, run.metrics, has_influxdb_client, FALSE).points
       ELSE IF storage_backend = "prometheus"
       THEN StoreToPrometheus({}, {}, run.system_metrics, run.service_metrics,
                              run.node_metrics, has_prometheus_registry,
                              pushgateway_url, FALSE).gateway
       ELSE Range(run.metrics)

AloneCount(p) ==
    IF storage_backend \in {"influxdb", "prometheus"} THEN Cardinality(Alone(p))
    ELSE Len(op.run[p].metrics)

\* C22: once two instances have finished their concurrent runs, in whatever
\* order their steps fell, the store holds every point of both batches: none
\* is lost, merged with another or overwritten
C22_NothingLost ==
    BothFinished =>
        /\ \A p \in Instances : Alone(p) \subseteq Held
        /\ HeldCount = AloneCount(1) + AloneCount(2)

\* on the database backend it does: each batch is one insert of new rows
C22_DatabaseKeepsBoth ==
    (BothFinished /\ storage_backend = "database") =>
        /\ \A x \in Range(op.run[1].metrics) \cup Range(op.run[2].metrics) :
              Count(metric_table, x) = Count(op.run[1].metrics, x)
                                         + Count(op.run[2].metrics, x)
        /\ Len(metric_table) = Len(op.run[1].metrics) + Len(op.run[2].metrics)

C22_DatabaseKeepsBothWitness ==
    /\ BothFinished /\ storage_backend = "database"
    /\ op.run[1].metrics # <<>> /\ op.run[2].metrics # <<>>
    /\ op.run[1].timestamp = op.run[2].timestamp

-----------------------------------------------------------------------------
(* The batch write of a run (checked under Spec).  The fault of a run is a  *)
(* point of its batch that the backend rejects: the batch is handed over in *)
(* one call, which then raises.                                             *)

\* a run on the database backend whose batch of two or more points holds one
\* the database rejects
FaultyBatchStored ==
    /\ op'.kind = "collect" /\ op'.fault
    /\ storage_backend = "database"
    /\ Len(op'.metrics) >= 2

\* C23: a batch write is best-effort: when one point of the batch fails to
\* store, the other points of the batch are stored all the same
C23_BestEffort ==
    [][FaultyBatchStored =>
          Len(metric_table') >= Len(metric_table) + Len(op'.metrics) - 1]_vars

\* the batch is written as a whole or not at all: the failure of one point
\* leaves none of its batch in the table
C23_WholeBatchDropped ==
    [][FaultyBatchStored => metric_table' = metric_table]_vars

-----------------------------------------------------------------------------
(* The summary of a run (checked under Spec) *)

\* a run on the database backend has returned a summary that reports success
RunSucceeded ==
    /\ op'.kind = "collect" /\ op'.summary.success
    /\ storage_backend = "database"

\* the rows of the table stamped with the time of the summary
RowsOfRun(table, summary) ==
    Cardinality({ i \in 1..Len(table) : table[i].timestamp = summary.timestamp })

\* C24: the points of one run carry one timestamp, that of the summary, and
\* when the summary reports success with metrics_collected = k the run has
\* added exactly k points of that timestamp to the store
C24_SummaryCountsStored ==
    [][RunSucceeded =>
          /\ \A i \in 1..Len(op'.metrics) :
                op'.metrics[i].timestamp = op'.summary.timestamp
          /\ RowsOfRun(metric_table', op'.summary)
                = RowsOfRun(metric_table, op'.summary) + op'.summary.metrics_collected
          /\ Len(metric_table') = Len(metric_table) + op'.summary.metrics_collected]_vars

\* the summary counts the points collected: they share its timestamp, and
\* they are the rows added when the store call did not fail
C24_SummaryCountsCollected ==
    [][RunSucceeded =>
          /\ \A i \in 1..Len(op'.metrics) :
                op'.metrics[i].timestamp = op'.summary.timestamp
          /\ op'.summary.metrics_collected = Len(op'.metrics)
          /\ op'.summary.timestamp = now
          /\ ~ op'.fault =>
                /\ RowsOfRun(metric_table', op'.summary)
                      = RowsOfRun(metric_table, op'.summary)
                          + op'.summary.metrics_collected
                /\ Len(metric_table') = Len(metric_table)
                                           + op'.summary.metrics_collected]_vars

-----------------------------------------------------------------------------
(* DashboardBuilder.  The builder reads through its own MetricsCollector(),  *)
(* which is of the default backend, 'database'.  A panel configuration is a  *)
(* dict, a set of <<key, value>> pairs.                                      *)

\* the window of get_dashboard_data: h and d suffixes, else the last 24 hours
DashboardStartTime(time_range, time) ==
    LET n == IntOf(ButLast(time_range))
    IN IF EndsWith(time_range, "h")
       THEN IF n.raised THEN [raised |-> TRUE]
            ELSE [raised |-> FALSE, start_time |-> time - Hours(n.value)]
       ELSE IF EndsWith(time_range, "d")
       THEN IF n.raised THEN [raised |-> TRUE]
            ELSE [raised |-> FALSE, start_time |-> time - Days(n.value)]
       ELSE [raised |-> FALSE, start_time |-> time - Hours(24)]

\* the k-th smallest of a set of numbers
NthSmallest(S, k) == CHOOSE n \in S : Cardinality({ m \in S : m < n }) = k - 1

\* the positions at which a key shows for the first time in a list
FirstShown(data, Key(_)) ==
    LET firsts == { i \in 1..Len(data) :
                      \A j \in 1..(i - 1) : Key(data[j]) # Key(data[i]) }
    IN [k \in 1..Cardinality(firsts) |-> NthSmallest(firsts, k)]

\* _format_line_chart_data: one series per field, in the order the fields show
FormatLineChartData(data, config) ==
    LET FieldKey(point) == point.field
        shown == FirstShown(data, FieldKey)
        Of(field) == SelectSeq(data, LAMBDA point : point.field = field)
    IN [type |-> "line", title |-> Get(config, "title", "Chart"),
        series |-> [k \in 1..Len(shown) |->
                      [name |-> data[shown[k]].field,
                       data |-> [i \in 1..Len(Of(data[shown[k]].field)) |->
                                   [x |-> IsoFormat(Of(data[shown[k]].field)[i].timestamp),
                                    y |-> Of(data[shown[k]].field)[i].value]]]],
        config |-> config]

\* _format_bar_chart_data: the average value per tag set, in the order the
\* tag sets show; the label joins the tags
FormatBarChartData(data, config) ==
    LET TagsKey(point) == point.tags
        shown == FirstShown(data, TagsKey)
        Of(tags) == SelectSeq(data, LAMBDA point : point.tags = tags)
    IN [type |-> "bar", title |-> Get(config, "title", "Chart"),
        data |-> [k \in 1..Len(shown) |->
                    [label |-> data[shown[k]].tags,
                     value |-> Fraction(SeqSum([i \in 1..Len(Of(data[shown[k]].tags)) |->
                                                  Of(data[shown[k]].tags)[i].value]),
                                        Len(Of(data[shown[k]].tags))),
                     count |-> Len(Of(data[shown[k]].tags))]],
        config |-> config]

\* the first point of the list
EarliestPoint(data) == data[1]

\* max(data, key=lambda x: x['timestamp']): the first of the points of the
\* greatest timestamp
LatestPoint(data) ==
    data[CHOOSE i \in 1..Len(data) :
            /\ \A j \in 1..Len(data) : data[j].timestamp <= data[i].timestamp
            /\ \A j \in 1..(i - 1) : data[j].timestamp < data[i].timestamp]

\* _format_gauge_data
FormatGaugeData(data, config) ==
    IF data = <<>>
    THEN [type |-> "gauge", title |-> Get(config, "title", "Gauge"), value |-> 0,
          config |-> config]
    ELSE [type |-> "gauge", title |-> Get(config, "title", "Gauge"),
          value |-> LatestPoint(data).value,
          timestamp |-> IsoFormat(LatestPoint(data).timestamp),
          config |-> config]

\* _get_panel_data: the data of the panel's measurement and tags from
\* start_time up to now, shaped by the type of the panel
GetPanelData(panel_config, start_time, fault) ==
    LET panel_type == Get(panel_config, "type", "line")
        measurement == Get(panel_config, "measurement", None)
        tags == Get(panel_config, "tags", {})
        data == QueryDatabase(metric_table, measurement, tags, start_time, now,
                              fault).data
    IN IF panel_type = "line" THEN FormatLineChartData(data, panel_config)
       ELSE IF panel_type = "bar" THEN FormatBarChartData(data, panel_config)
       ELSE IF panel_type = "gauge" THEN FormatGaugeData(data, panel_config)
       ELSE [type |-> panel_type, data |-> data, config |-> panel_config]

\* get_dashboard_data(dashboard_config, time_range); a count that is not a
\* number raises ValueError
GetDashboardData(dashboard_config, time_range, fault) ==
    LET parsed == DashboardStartTime(time_range, now)
        panels == Get(dashboard_config, "panels", <<>>)
    IN /\ op' = IF parsed.raised
                THEN [kind |-> "dashboard", dashboard_config |-> dashboard_config,
                      time_range |-> time_range, fault |-> fault, raised |-> TRUE]
                ELSE [kind |-> "dashboard", dashboard_config |-> dashboard_config,
                      time_range |-> time_range, fault |-> fault, raised |-> FALSE,
                      start_time |-> parsed.start_time,
                      data |-> [time_range |-> time_range, generated_at |-> now,
                                panels |-> [i \in 1..Len(panels) |->
                                              GetPanelData(panels[i], parsed.start_time,
                                                           fault)]]]
       /\ UNCHANGED <<now, collector, stores, cache, runs, preceding>>

\* the most rows the table holds
MaxGaugeRows == 2

\* points of service_replicas of two services, in and before the last hour
ReplicaPoints ==
    { Point("service_replicas", { <<"service_id", id>> },
            << <<"running", running>>, <<"desired", 2>> >>, t) :
          id \in {"s1", "s2"}, running \in {1, 3}, t \in {-90, -30, 0} }

Panel(type, tags) ==
    { <<"type", type>>, <<"measurement", "service_replicas">>, <<"tags", tags>>,
      <<"title", "Replicas">> }

\* the dashboards asked for: a gauge and a panel of a type the builder does
\* not know, a line and a bar chart, a panel without a type, no panel at all
DashboardConfigs ==
    { { <<"panels", << Panel("gauge", tags), Panel("pie", tags) >> >> } :
          tags \in { {}, { <<"service_id", "s1">> } } }
    \cup { { <<"panels", << Panel("line", {}), Panel("bar", {}) >> >> },
           { <<"panels", << { <<"measurement", "service_replicas">> } >> >> },
           {} }

DashboardRanges == { <<"1", "h">>, <<"1", "d">>, <<"1", "w">>, <<"x", "h">>, <<>> }

DashboardInit ==
    /\ now = 0
    /\ configured = [storage_backend |-> "database", outcome |-> "ok"]
    /\ storage_backend = "database"
    /\ has_influxdb_client = FALSE
    /\ has_prometheus_registry = FALSE
    /\ pushgateway_url = FALSE
    /\ \E n \in 0..MaxGaugeRows : \E metrics \in [1..n -> ReplicaPoints] :
          metric_table = StoreToDatabase(<<>>, metrics, FALSE).table
    /\ influx_points = {}
    /\ prom_gauges = {}
    /\ pushgateway = {}
    /\ cache = {}
    /\ runs = 0
    /\ op = NoOp
    /\ preceding = NoOp

Dashboard ==
    /\ op.kind = "none"
    /\ \E dashboard_config \in DashboardConfigs : \E time_range \in DashboardRanges :
          \E fault \in BOOLEAN : GetDashboardData(dashboard_config, time_range, fault)

DashboardSpec == DashboardInit /\ [][Dashboard]_vars

\* the result of the query of a panel of the dashboard last built
PanelQuery(panel_config) ==
    QueryDatabase(metric_table, Get(panel_config, "measurement", None),
                  Get(panel_config, "tags", {}), op.start_time, now, op.fault).data

DashboardBuilt == op.kind = "dashboard" /\ ~ op.raised

\* C25: a gauge panel shows the value of the point of the latest timestamp
\* of its query result, and 0 when the result is empty; a panel of a type
\* that is not recognised returns the query result as it is, with that type
C25_GaugeAndUnknownPanels ==
    DashboardBuilt =>
        \A i \in 1..Len(op.data.panels) :
            LET config == Get(op.dashboard_config, "panels", <<>>)[i]
                type == Get(config, "type", "line")
                data == PanelQuery(config)
                panel == op.data.panels[i]
            IN /\ (type = "gauge" /\ data = <<>>) => panel.value = 0
               /\ (type = "gauge" /\ data # <<>>) =>
                     \E k \in 1..Len(data) :
                         /\ \A j \in 1..Len(data) : data[j].timestamp <= data[k].timestamp
                         /\ panel.value = data[k].value
               /\ type \notin {"line", "bar", "gauge"} =>
                     /\ panel.type = type
                     /\ panel.data = data

\* a gauge over points of different timestamps and values, next to a panel
\* of an unknown type with data
C25_Witness ==
    /\ DashboardBuilt
    /\ Len(op.data.panels) = 2
    /\ op.data.panels[1].type = "gauge"
    /\ op.data.panels[2].type = "pie"
    /\ \E j, k \in 1..Len(op.data.panels[2].data) :
          /\ op.data.panels[2].data[j].timestamp < op.data.panels[2].data[k].timestamp
          /\ op.data.panels[2].data[j].value # op.data.panels[1].value

-----------------------------------------------------------------------------
(* Aggregation of a measurement of several fields (checked under Spec) *)

\* an aggregation returns what it computes: the cache holds no result for it
ComputesBuckets ==
    /\ op'.kind = "aggregate" /\ ~ op'.raised
    /\ CacheGet(cache, CacheKey(op'.measurement, op'.tags, op'.start_time,
                                op'.end_time, op'.granularity), now) = None

\* the records of the range an aggregation is asked for; the aggregation
\* leaves the table as it is
RawData(call) ==
    QueryDatabase(metric_table, call.measurement, call.tags, call.start_time,
                  call.end_time, FALSE).data

\* the values of the records of a bucket that belong to one of the fields
BucketValues(raw_data, interval, bucket, fields) ==
    LET InBucket(point) == /\ BucketTime(bucket) <= point.timestamp
                           /\ point.timestamp < BucketTime(bucket) + interval
                           /\ point.field \in fields
        records == SelectSeq(raw_data, InBucket)
    IN [i \in 1..Len(records) |-> records[i].value]

\* the mean, min, max and count of a bucket are those of the values
BucketIsOver(bucket, values) ==
    /\ values # <<>>
    /\ bucket.count = Len(values)
    /\ bucket.value = Mean(values)
    /\ bucket.min = SeqMin(values)
    /\ bucket.max = SeqMax(values)

FieldsOf(data) == { data[i].field : i \in 1..Len(data) }

\* the buckets an aggregation returns are each over the values of a single
\* field
SingleFieldBuckets(call) ==
    \A raw_data \in {RawData(call)} :
        \A interval \in {ParseGranularity(call.granularity).interval} :
            \A i \in 1..Len(call.data) :
                \E field \in FieldsOf(raw_data) :
                    \E values \in {BucketValues(raw_data, interval, call.data[i],
                                                 {field})} :
                        BucketIsOver(call.data[i], values)

\* the buckets an aggregation returns are each over the values of all the
\* fields
AllFieldsBuckets(call) ==
    \A raw_data \in {RawData(call)} :
        \A interval \in {ParseGranularity(call.granularity).interval} :
            \A i \in 1..Len(call.data) :
                \E values \in {BucketValues(raw_data, interval, call.data[i],
                                             FieldsOf(raw_data))} :
                    BucketIsOver(call.data[i], values)

\* C26: the mean, min, max and count of every bucket are computed over the
\* values of a single field: values of different fields of the measurement
\* are not combined into one statistic
C26_SingleFieldBuckets == [][ComputesBuckets => SingleFieldBuckets(op')]_vars

\* they are computed over the values of all the fields of the measurement
\* together
C26_AllFieldsCombined == [][ComputesBuckets => AllFieldsBuckets(op')]_vars

-----------------------------------------------------------------------------
(* _calculate_service_performance over series of buckets (ScoreSpec) *)

\* series have at most this many buckets
MaxBuckets == 3

\* the series of hourly buckets of up to MaxBuckets hours, each hour holding
\* one of the sample lists
BucketSeries(hour_samples) ==
    { SeriesOf(samples) :
        samples \in UNION { [1..n -> hour_samples] : n \in 0..MaxBuckets } }

\* the replica counts and the health samples of a service, bucketed
ScoreInit ==
    /\ FreshEngine
    /\ \E replica_data \in BucketSeries({ <<1>>, <<2>>, <<3>> }) :
          \E health_data \in BucketSeries(HourSamples) :
              op = [kind |-> "samples", replica_data |-> replica_data,
                    health_data |-> health_data]

PerformanceCalculated ==
    /\ op.kind = "samples"
    /\ op' = [kind |-> "performance", replica_data |-> op.replica_data,
              health_data |-> op.health_data,
              stats |-> CalculateServicePerformance(op.replica_data, op.health_data)]
    /\ UNCHANGED <<now, collector, stores, cache, runs, preceding>>

ScoreSpec == ScoreInit /\ [][PerformanceCalculated]_vars

\* the replica samples, whole numbers here
ReplicaCounts == [i \in 1..Len(op.replica_data) |-> op.replica_data[i].value.num]

\* the sample standard deviation of the replica samples exceeds 1: with n
\* samples, n * sum of squares - square of the sum > n * (n - 1)
ReplicasSpread ==
    LET n == Len(ReplicaCounts)
        squares == [i \in 1..n |-> ReplicaCounts[i] * ReplicaCounts[i]]
    IN n * SeqSum(squares) - SeqSum(ReplicaCounts) * SeqSum(ReplicaCounts) > n * (n - 1)

\* C27: the performance score is min(100, (uptime_percentage + (100 if stable
\* else 50)) / 2), the service being unstable exactly when it has more than
\* one replica sample and their sample standard deviation exceeds 1; with
\* health values in {0, 1} the score lies between 25 and 100
C27_PerformanceScore ==
    op.kind = "performance" =>
        LET uptime == op.stats.uptime_percentage
            unstable == Len(op.replica_data) > 1 /\ ReplicasSpread
            share == Fraction(IF unstable THEN 50 ELSE 100, 1)
            half == Over(Plus(uptime, share), Fraction(2, 1))
        IN /\ (op.stats.replica_stability = "unstable") <=> unstable
           /\ op.stats.performance_score
                 = (IF Less(Fraction(100, 1), half) THEN Fraction(100, 1) ELSE half)
           /\ ~ Less(op.stats.performance_score, Fraction(25, 1))
           /\ ~ Less(Fraction(100, 1), op.stats.performance_score)

\* an unstable service that was never healthy scores 25
C27_Witness ==
    /\ op.kind = "performance"
    /\ op.stats.replica_stability = "unstable"
    /\ op.health_data # <<>>
    /\ op.stats.performance_score = Fraction(25, 1)

-----------------------------------------------------------------------------
(* Predictions of series of every length (checked under PredictionSpec) *)

\* the samples of the series predicted from, whole numbers here
Samples == [i \in 1..Len(op.data) |-> op.data[i].value.num]

\* C28: of n samples with n < 5 the prediction is the empty list; otherwise
\* it has exactly 24 points: with w = min(10, floor(n / 2)) and the window the
\* last w samples, step i has predicted_value
\* max(0, last + i * (last - first of the window) / w), never negative, the
\* confidence max(0.1, 1 - 0.05 * i) and a timestamp i hours after the last
\* sample
C28_Predictions ==
    op.kind = "predictions" =>
        LET n == Len(op.data)
            w == IF n \div 2 < 10 THEN n \div 2 ELSE 10
            last == Samples[n]
            first == Samples[n - w + 1]
        IN IF n < 5 THEN op.predictions = <<>>
           ELSE /\ Len(op.predictions) = 24
                /\ \A i \in 1..24 :
                      /\ op.predictions[i].predicted_value
                            = (IF last * w + i * (last - first) > 0
                               THEN Fraction(last * w + i * (last - first), w)
                               ELSE Fraction(0, 1))
                      /\ op.predictions[i].predicted_value.num >= 0
                      /\ op.predictions[i].confidence
                            = (IF 100 - 5 * i > 10 THEN Fraction(100 - 5 * i, 100)
                               ELSE Fraction(1, 10))
                      /\ op.predictions[i].timestamp
                            = IsoFormat(op.data[n].timestamp[2] + 60 * i)

\* a falling series of 22 samples, window 10: the prediction falls from 4.1
\* and is held at 0 from the sixth step on
C28_Witness ==
    /\ op.kind = "predictions"
    /\ Len(op.data) = 22
    /\ op.predictions[1].predicted_value = Fraction(41, 10)
    /\ op.predictions[5].predicted_value = Fraction(5, 10)
    /\ op.predictions[6].predicted_value = Fraction(0, 1)

-----------------------------------------------------------------------------
(* AnalyticsEngine.get_node_capacity_analysis (NodeSpec) *)

\* _get_unique_nodes: the node ids of the node_resources rows of the range
UniqueNodes(table, start_time, end_time) ==
    { Get(table[i].tags, "node_id", "") :
        i \in { i \in 1..Len(table) : /\ table[i].measurement = "node_resources"
                                      /\ table[i].timestamp >= start_time
                                      /\ table[i].timestamp <= end_time } } \ {""}

\* word in str(point).lower(), for a bucket of _get_aggregated_metrics: the
\* text holds the five keys of the bucket, the ISO form of a time and numbers,
\* so a word of letters is found in it only as one of the keys
InText(word, point) == word \in DOMAIN point

\* _calculate_node_capacity_stats
CalculateNodeCapacityStats(resource_data, status_data) ==
    LET cpu == SelectSeq(resource_data, LAMBDA point : InText("cpu", point))
        memory == SelectSeq(resource_data, LAMBDA point : InText("memory", point))
        cpu_values == [i \in 1..Len(cpu) |-> cpu[i].value]
        memory_values == [i \in 1..Len(memory) |-> memory[i].value]
        available_values == [i \in 1..Len(status_data) |-> status_data[i].value]
    IN [cpu_utilization |->
            IF resource_data # <<>> /\ cpu_values # <<>>
            THEN FractionMean(cpu_values) ELSE Fraction(0, 1),
        memory_utilization |->
            IF resource_data # <<>> /\ memory_values # <<>>
            THEN FractionMean(memory_values) ELSE Fraction(0, 1),
        availability |->
            IF status_data # <<>>
            THEN Times(Over(Sum(available_values), Fraction(Len(available_values), 1)),
                       Fraction(100, 1))
            ELSE Fraction(100, 1),
        capacity_trend |-> "stable"]

\* _generate_node_recommendations
GenerateNodeRecommendations(resource_data, status_data) ==
    << "Monitor resource utilization trends",
       "Consider load balancing if CPU usage consistently high" >>

\* _generate_cluster_summary
GenerateClusterSummary(capacity_analysis) ==
    [total_nodes |-> Cardinality(DOMAIN capacity_analysis),
     nodes_status |-> "healthy",
     recommendations |-> << "Regular capacity planning", "Monitor node health" >>]

\* the body of the loop over the nodes: the entry of one node and the cache
\* the two aggregations leave
NodeAnalysis(entries, node_filter, start_time, end_time) ==
    LET resource == GetAggregatedMetrics(entries, metric_table, now, "node_resources",
                                         node_filter, start_time, end_time,
                                         <<"1", "h">>, FALSE)
        status == GetAggregatedMetrics(resource.cache, metric_table, now, "node_status",
                                       node_filter, start_time, end_time,
                                       <<"5", "m">>, FALSE)
    IN [entry |-> [resource_data |-> resource.data,
                   status_data |-> status.data,
                   capacity_stats |-> CalculateNodeCapacityStats(resource.data, status.data),
                   recommendations |->
                       GenerateNodeRecommendations(resource.data, status.data)],
        cache |-> status.cache]

\* the loop over the nodes; the keys of the cache differ from node to node
AnalyseNodes(entries, nodes, start_time, end_time) ==
    [analysis |->
         [node \in nodes |->
             NodeAnalysis(entries, { <<"node_id", node>> }, start_time, end_time).entry],
     cache |->
         CacheSetAll(entries,
             UNION { NodeAnalysis(entries, { <<"node_id", node>> },
                                  start_time, end_time).cache \ entries :
                     node \in nodes })]

\* get_node_capacity_analysis(time_range)
GetNodeCapacityAnalysis(time_range) ==
    LET parsed == ParseTimeRange(time_range, now)
        nodes == UniqueNodes(metric_table, parsed.start_time, parsed.end_time)
        done == AnalyseNodes(cache, nodes, parsed.start_time, parsed.end_time)
    IN /\ IF parsed.raised
          THEN /\ op' = [kind |-> "node_capacity", time_range |-> time_range,
                         raised |-> TRUE]
               /\ UNCHANGED cache
          ELSE /\ op' = [kind |-> "node_capacity", time_range |-> time_range,
                         raised |-> FALSE,
                         start_time |-> parsed.start_time, end_time |-> parsed.end_time,
                         nodes |-> done.analysis,
                         cluster_summary |-> GenerateClusterSummary(done.analysis)]
               /\ cache' = done.cache
       /\ UNCHANGED <<now, collector, stores, runs, preceding>>

\* the times of the collections: the last two lie in one hour of the window
CollectionTimes == {-90, -30, -29}

\* the tables a collector can have left of node n1: at each of some of the
\* times a node_resources row and a node_status row, as _collect_node_metrics
\* makes them, in the order of the times
NodeTables ==
    LET tags == { <<"node_id", "n1">>, <<"hostname", "host1">>, <<"role", "manager">> }
        Nth(times, i) == CHOOSE t \in times : Cardinality({ u \in times : u < t }) = i - 1
        Rows(t, cpu, ready) ==
            << Metric("node_resources", tags,
                      << <<"cpu_cores", cpu>>, <<"memory_gb", 8>> >>, t),
               Metric("node_status", tags,
                      << <<"ready", ready>>, <<"available", 1>> >>, t) >>
    IN { Concat([i \in 1..Cardinality(times) |->
                    Rows(Nth(times, i), cpu[Nth(times, i)], ready[Nth(times, i)])]) :
           times \in SUBSET CollectionTimes,
           cpu \in [CollectionTimes -> {2, 4}],
           ready \in [CollectionTimes -> {0, 1}] }

NodeInit ==
    /\ now = 0
    /\ configured = [storage_backend |-> "database", outcome |-> "ok"]
    /\ storage_backend = "database"
    /\ has_influxdb_client = FALSE
    /\ has_prometheus_registry = FALSE
    /\ pushgateway_url = FALSE
    /\ metric_table \in NodeTables
    /\ influx_points = {}
    /\ prom_gauges = {}
    /\ pushgateway = {}
    /\ cache = {}
    /\ runs = 0
    /\ op = NoOp
    /\ preceding = NoOp

NodeCapacity ==
    /\ op.kind = "none"
    /\ \E time_range \in { <<"1", "h">>, <<"2", "h">>, <<"x", "h">> } :
          GetNodeCapacityAnalysis(time_range)

NodeSpec == NodeInit /\ [][NodeCapacity]_vars

\* the values of a field of the rows of a node in the window of the analysis
FieldValues(measurement, node, field) ==
    LET rows == SelectSeq(metric_table,
                    LAMBDA row : /\ row.measurement = measurement
                                 /\ row.timestamp >= op.start_time
                                 /\ row.timestamp <= op.end_time
                                 /\ <<"node_id", node>> \in row.tags)
    IN [i \in 1..Len(rows) |-> Get(Range(rows[i].fields), field, 0)]

NodeAnalysed == op.kind = "node_capacity" /\ ~op.raised

\* C29: for a node with resource data in the window, cpu_utilization and
\* memory_utilization are the means of the CPU and memory values of the
\* node's rows in the window, and availability is 100 times the mean of its
\* status samples
C29_CapacityStats ==
    NodeAnalysed =>
        \A node \in DOMAIN op.nodes :
            op.nodes[node].resource_data # <<>> =>
                /\ op.nodes[node].capacity_stats.cpu_utilization
                       = Mean(FieldValues("node_resources", node, "cpu_cores"))
                /\ op.nodes[node].capacity_stats.memory_utilization
                       = Mean(FieldValues("node_resources", node, "memory_gb"))
                /\ op.nodes[node].capacity_stats.availability
                       = Times(Mean(FieldValues("node_status", node, "ready")),
                               Fraction(100, 1))

\* what the code does: no bucket mentions cpu or memory, so both utilizations
\* stay 0; availability is 100 times the mean of the values of the status
\* buckets, 100 when there is none
C29_UtilizationStaysZero ==
    NodeAnalysed =>
        \A node \in DOMAIN op.nodes :
            LET entry == op.nodes[node]
                status == [i \in 1..Len(entry.status_data) |-> entry.status_data[i].value]
            IN /\ entry.resource_data # <<>>
               /\ entry.capacity_stats.cpu_utilization = Fraction(0, 1)
               /\ entry.capacity_stats.memory_utilization = Fraction(0, 1)
               /\ entry.capacity_stats.availability
                      = IF status = <<>> THEN Fraction(100, 1)
                        ELSE Times(FractionMean(status), Fraction(100, 1))

\* a node whose rows of the window all say 4 cores is reported with 0
C29_UtilizationStaysZeroWitness ==
    /\ NodeAnalysed
    /\ "n1" \in DOMAIN op.nodes
    /\ Range(FieldValues("node_resources", "n1", "cpu_cores")) = {4}
    /\ op.nodes["n1"].capacity_stats.cpu_utilization = Fraction(0, 1)


-----------------------------------------------------------------------------
(* The window of a duration token, as the dashboard builder, the metrics    *)
(* API view and the analytics engine resolve it (WindowSpec)                *)

\* the window of api_metrics_data: h and d suffixes, else the last hour
ApiStartTime(time_range, time) ==
    LET n == IntOf(ButLast(time_range))
    IN IF EndsWith(time_range, "h")
       THEN IF n.raised THEN [raised |-> TRUE]
            ELSE [raised |-> FALSE, start_time |-> time - Hours(n.value)]
       ELSE IF EndsWith(time_range, "d")
       THEN IF n.raised THEN [raised |-> TRUE]
            ELSE [raised |-> FALSE, start_time |-> time - Days(n.value)]
       ELSE [raised |-> FALSE, start_time |-> time - Hours(1)]

\* api_metrics_data: the view reads through a collector of its own; any
\* exception, the ValueError of a bad count among them, gives status 500
ApiMetricsData(measurement, tags_filter, time_range) ==
    LET parsed == ApiStartTime(time_range, now)
        got == IF storage_backend = "influxdb"
               THEN QueryInfluxdb(influx_points, measurement, tags_filter,
                                  parsed.start_time, now, has_influxdb_client, FALSE)
               ELSE IF storage_backend = "database"
               THEN QueryDatabase(metric_table, measurement, tags_filter,
                                  parsed.start_time, now, FALSE)
               ELSE [data |-> <<>>, raised |-> FALSE]
    IN /\ op' = IF parsed.raised
                THEN [kind |-> "api_metrics_data", time_range |-> time_range,
                      raised |-> TRUE, status |-> 500, success |-> FALSE]
                ELSE [kind |-> "api_metrics_data", time_range |-> time_range,
                      raised |-> FALSE, status |-> 200, success |-> TRUE,
                      start_time |-> parsed.start_time,
                      data |-> Last(got.data, 100), measurement |-> measurement]
       /\ UNCHANGED <<now, collector, stores, cache, runs, preceding>>

\* the dashboard builder is asked for a dashboard without panels
DashboardResolves ==
    /\ op.kind = "token"
    /\ GetDashboardData({}, op.token, FALSE)

\* the view is asked for the default measurement
ApiResolves ==
    /\ op.kind = "token"
    /\ ApiMetricsData("system_resources", {}, op.token)

WindowNext == DashboardResolves \/ ApiResolves \/ TimeRangeParsed

WindowSpec == TokenInit /\ [][WindowNext]_vars

\* what a resolution comes to: a start time, or the ValueError of int()
Resolved(outcome) ==
    IF outcome.raised THEN [raised |-> TRUE]
    ELSE [raised |-> FALSE, start_time |-> outcome.start_time]

ResolvedByBuilderOrView == op.kind \in {"dashboard", "api_metrics_data"}

\* C30: for every token the start time that get_dashboard_data and
\* api_metrics_data use is the one _parse_time_range yields at the same time
C30_SameWindow ==
    ResolvedByBuilderOrView =>
        Resolved(op) = Resolved(ParseTimeRange(op.time_range, now))

\* the three agree on the tokens that end in h or d; on any other token the
\* builder takes the last 24 hours and the view the last hour, while the
\* engine reads a w suffix as weeks and takes 24 hours of the rest
C30_AgreeOnHoursAndDays ==
    ResolvedByBuilderOrView =>
        IF EndsWith(op.time_range, "h") \/ EndsWith(op.time_range, "d")
        THEN Resolved(op) = Resolved(ParseTimeRange(op.time_range, now))
        ELSE /\ ~op.raised
             /\ op.start_time = IF op.kind = "dashboard" THEN now - Hours(24)
                                ELSE now - Hours(1)

\* the view resolved the token 5w to the last hour, the engine makes it five
\* weeks
C30_AgreeOnHoursAndDaysWitness ==
    /\ op.kind = "api_metrics_data"
    /\ op.time_range = <<"5", "w">>
    /\ op.start_time = now - Hours(1)
    /\ ParseTimeRange(op.time_range, now).start_time = now - Days(35)

====
